---- MODULE Spec2Model ----
(***************************************************************************)
(* The fjall storage engine of ufos (ufos/src/storage_fjall.rs): a         *)
(* keyspace of five partitions written through atomic batches by one       *)
(* writer (insert_batch, step_rollup, trim_collection, delete_account,     *)
(* background_tasks) and read through snapshots by the reader              *)
(* (get_counts_by_collection, get_records_by_collections,                  *)
(* get_top_collections_by_count / _by_dids).                               *)
(*                                                                         *)
(* Keys are tuples whose first element names the key family; a partition   *)
(* is a function from its keys to their values.  A cursor is a natural     *)
(* number, 0 being Cursor::from_start().  The cardinality sketch of a      *)
(* counts cell is the set of DIDs inserted into it.                        *)
(***************************************************************************)
EXTENDS Integers, Sequences, FiniteSets, TLC

\* ------------------------------------------------------------------ bounds
MaxCursor == 3
MaxBatches == 2
MaxRollupBatches == 3
MaxLimit == 2
MaxTrimBatches == 3
\* the records the background task's trim keeps, in place of the 512 of run
TrimLimit == 1
\* the records of an all-time cell handed to the hierarchical query
MaxCellRecords == 2
\* the LIMIT of CollectionCommits<LIMIT> and EventBatch<LIMIT>
LIMIT == 2
\* the truncating_insert calls on one CollectionCommits
MaxInserts == 5
\* the limit of a page of get_all_collections
MaxPage == 3
\* the live cells one roll-up step folds, in place of the 256 of
\* MAX_BATCHED_ROLLUP_COUNTS
RollupLimit == 2

\* --------------------------------------------------- the program's constants
MAX_BATCHED_CLEANUP_SIZE == 1024
MAX_BATCHED_ACCOUNT_DELETE_RECORDS == 1024
MAX_BATCHED_ROLLUP_COUNTS == 256

\* width of an hour bucket and of a week bucket, in cursor units
HourLen == 2
WeekLen == 4

\* ---------------------------------------------------------------- universes
DIDs == {"did:a", "did:b"}
\* collections in ascending key order
NSIDS == <<"a.a.a", "a.a.b">>
NSIDSet == {NSIDS[i] : i \in 1..Len(NSIDS)}
RKeys == {"k1", "k2"}
Cursors == 1..MaxCursor
Endpoints == {"wss://one", "wss://two"}
\* sketch secrets, in place of the 16 random bytes of a SketchSecretPrefix
Secrets == {"secret", "secret2"}

None == <<"none">>

VARIABLES
    keyspace,   \* [global, feeds, records, rollups, queues]: the five partitions
    bg_taken,   \* the writer's background-task flag
    running,    \* whether the last FjallStorage::init returned a reader and a writer
    nbatches,   \* number of non-empty batches handed to insert_batch so far
    creates,    \* history: per collection, the create commits ingested
    lastCommit, \* history: per record location, the commit applied last
    puts,       \* history: <<collection, cursor, did, rkey>> of every put ingested
    op,         \* history: the last operation, its arguments and its result
    pending,    \* the background task's step between its reads and its commit
    reader,     \* the reader's get_records_by_collections call in flight
    batcher,    \* the CollectionCommits the consumer is filling, and its history
    pager       \* the client's walk through the pages of get_all_collections

vars == <<keyspace, bg_taken, running, nbatches, creates, lastCommit, puts, op, pending,
          reader, batcher, pager>>

\* ------------------------------------------------------------------ helpers
Max(a, b) == IF a >= b THEN a ELSE b

Min(a, b) == IF a <= b THEN a ELSE b

\* F applied to the value of e, which is computed once
With(e, F(_)) == CHOOSE r \in {F(x) : x \in {e}} : TRUE

RECURSIVE SetToSeq(_)
SetToSeq(S) ==
    With(S, LAMBDA T :
        IF T = {} THEN <<>>
        ELSE With(CHOOSE y \in T : TRUE, LAMBDA x : <<x>> \o SetToSeq(T \ {x})))

NsidIndex(n) == CHOOSE i \in 1..Len(NSIDS) : NSIDS[i] = n

\* --------------------------------------------------- partitions and batches
Insert(part, key, val) ==
    [k \in (DOMAIN part) \cup {key} |-> IF k = key THEN val ELSE part[k]]

Remove(part, key) ==
    [k \in (DOMAIN part) \ {key} |-> part[k]]

BatchInsert(p, key, val) == [op |-> "insert", part |-> p, key |-> key, val |-> val]

BatchRemove(p, key) == [op |-> "remove", part |-> p, key |-> key, val |-> None]

ApplyOp(ks, o) ==
    IF o.op = "insert"
    THEN [ks EXCEPT ![o.part] = Insert(@, o.key, o.val)]
    ELSE [ks EXCEPT ![o.part] = Remove(@, o.key)]

\* fjall's Batch::commit: every operation of the batch, in order, atomically
RECURSIVE CommitFrom(_, _, _)
CommitFrom(ks, batch, i) ==
    IF i > Len(batch) THEN ks
    ELSE With(ApplyOp(ks, batch[i]), LAMBDA next : CommitFrom(next, batch, i + 1))

Commit(ks, batch) == With(batch, LAMBDA b : CommitFrom(ks, b, 1))

EmptyPartition == [k \in {} |-> None]

\* ------------------------------------------------------------------- keys
JetstreamCursorKey == <<"js_cursor">>

JetstreamEndpointKey == <<"js_endpoint">>

SketchSecretKey == <<"sketch_secret">>

TakeoffKey == <<"takeoff">>

NewRollupCursorKey == <<"rollup_cursor">>

TrimCollectionCursorKey(nsid) == <<"trim_cursor", nsid>>

NsidRecordFeedKey(nsid, cursor) == <<nsid, cursor>>

RecordLocationKey(did, nsid, rkey) == <<did, nsid, rkey>>

LiveCountsKey(cursor, nsid) == <<"live_counts", cursor, nsid>>

HourlyRollupKey(hour, nsid) == <<"hourly_counts", hour, nsid>>

WeeklyRollupKey(week, nsid) == <<"weekly_counts", week, nsid>>

AllTimeRollupKey(nsid) == <<"ever_counts", nsid>>

HourlyRecordsKey(hour, rank, nsid) == <<"hourly_rank_records", hour, rank, nsid>>

HourlyDidsKey(hour, rank, nsid) == <<"hourly_rank_dids", hour, rank, nsid>>

WeeklyRecordsKey(week, rank, nsid) == <<"weekly_rank_records", week, rank, nsid>>

WeeklyDidsKey(week, rank, nsid) == <<"weekly_rank_dids", week, rank, nsid>>

AllTimeRecordsKey(rank, nsid) == <<"ever_rank_records", rank, nsid>>

AllTimeDidsKey(rank, nsid) == <<"ever_rank_dids", rank, nsid>>

DeleteAccountQueueKey(cursor) == <<cursor>>

HourTruncatedCursor(cursor) == cursor - (cursor % HourLen)

WeekTruncatedCursor(cursor) == cursor - (cursor % WeekLen)

\* ----------------------------------------------------------- counts values
CountsValue(records, dids) == [records |-> records, dids |-> dids]

CountsDefault == CountsValue(0, {})

estimate(sketch) == Cardinality(sketch)

merge(a, b) ==
    With(a, LAMBDA x : With(b, LAMBDA y :
        CountsValue(x.records + y.records, x.dids \cup y.dids)))

\* live_counts keys selected by LiveCountsKey::range_from_cursor(cursor)
range_from_cursor(rollups, cursor) ==
    {k \in DOMAIN rollups : k[1] = "live_counts" /\ k[2] > cursor}

\* queue keys selected by DeleteAccountQueueKey::new(cursor).range_to_prefix_end()
queue_range_to_prefix_end(queues, cursor) ==
    {k \in DOMAIN queues : k[1] > cursor}

\* feed keys selected by
\* NsidRecordFeedKey::from_pair(collection, cursor).range_to_prefix_end()
feed_range_to_prefix_end(feeds, collection, cursor) ==
    {k \in DOMAIN feeds : k[1] = collection /\ k[2] >= cursor}

\* ascending key order of live_counts keys: by cursor, then by collection
LiveKeyLess(a, b) ==
    \/ a[2] < b[2]
    \/ a[2] = b[2] /\ NsidIndex(a[3]) < NsidIndex(b[3])

RECURSIVE SortLive(_)
SortLive(S) ==
    With(S, LAMBDA T :
        IF T = {} THEN <<>>
        ELSE With(CHOOSE x \in T : \A y \in T \ {x} : LiveKeyLess(x, y),
                  LAMBDA m : <<m>> \o SortLive(T \ {m})))

\* ------------------------------------------------------------ event batches
Put(record, is_update) == [kind |-> "put", record |-> record, is_update |-> is_update]

Cut == [kind |-> "cut", record |-> "", is_update |-> FALSE]

is_create(action) == action.kind = "put" /\ ~action.is_update

UFOsCommit(cursor, did, rkey, rev, action) ==
    [cursor |-> cursor, did |-> did, rkey |-> rkey, rev |-> rev, action |-> action]

DeleteAccount(did, cursor) == [did |-> did, cursor |-> cursor]

\* CollectionCommits::default()
NewCollectionCommits ==
    [total_seen |-> 0, dids_estimate |-> {}, commits |-> <<>>, head |-> 0, non_creates |-> 0]

\* advance_head leaving head where it is
advance_head_stuck(head) == head

advance_head(head) == IF head + 1 > LIMIT THEN 0 ELSE head + 1

\* the loop of truncating_insert on a full buffer: the commit takes the place
\* of the create at head, head moving on past the non-creates; head counts
\* from 0
RECURSIVE replace_candidate(_, _, _)
replace_candidate(cc, commit, head_started_at) ==
    IF cc.head >= Len(cc.commits) THEN [cc |-> cc, err |-> "BatchOverflow"]
    ELSE IF is_create(cc.commits[cc.head + 1].action)
    THEN [cc |-> [cc EXCEPT !.commits[cc.head + 1] = commit], err |-> ""]
    ELSE LET advanced == [cc EXCEPT !.head = advance_head(@)]
         IN IF advanced.head = head_started_at
            THEN [cc |-> advanced, err |-> "BatchForever"]
            ELSE replace_candidate(advanced, commit, head_started_at)

\* truncating_insert with one of its steps changed: "no_full_check" goes on
\* when non_creates has reached LIMIT, "counts_all" counts every commit as a
\* create
truncating_insert_variant(cc, commit, variant) ==
    IF cc.non_creates = LIMIT /\ variant # "no_full_check"
    THEN [cc |-> cc, err |-> "BatchFull"]
    ELSE LET placed == IF Len(cc.commits) < LIMIT
                       THEN [cc |-> [cc EXCEPT !.commits = Append(@, commit)], err |-> ""]
                       ELSE replace_candidate(cc, commit, cc.head)
         IN IF placed.err # "" THEN placed
            ELSE IF is_create(commit.action) \/ variant = "counts_all"
            THEN [cc |-> [placed.cc EXCEPT !.total_seen = @ + 1,
                                           !.dids_estimate = @ \cup {commit.did}],
                  err |-> ""]
            ELSE [cc |-> [placed.cc EXCEPT !.non_creates = @ + 1], err |-> ""]

truncating_insert_no_full_check(cc, commit) ==
    truncating_insert_variant(cc, commit, "no_full_check")

truncating_insert_counts_all(cc, commit) ==
    truncating_insert_variant(cc, commit, "counts_all")

\* truncating_insert: the CollectionCommits it leaves and the error it
\* returns, "" for Ok
truncating_insert(cc, commit) == truncating_insert_variant(cc, commit, "")

\* the CollectionCommits insert_commit_by_nsid builds of a collection's commits
CollectionCommits(commits) ==
    LET F[i \in 0..Len(commits)] ==
            IF i = 0 THEN NewCollectionCommits
            ELSE truncating_insert(F[i - 1], commits[i]).cc
    IN F[Len(commits)]

\* the consumer's CollectionCommits before its first commit; accepted and
\* evicted are history: the commits truncating_insert has accepted, in
\* order, and those it has replaced; calls counts the calls
NewBatcher == [cc |-> NewCollectionCommits, accepted |-> <<>>, evicted |-> {}, calls |-> 0]

\* an EventBatch built by insert_commit_by_nsid from <<nsid, commit>> pairs
EventBatch(pairs, removes) ==
    LET nsids == {pairs[i][1] : i \in 1..Len(pairs)}
        Of(n) == SelectSeq(pairs, LAMBDA p : p[1] = n)
    IN [commits_by_nsid |->
            [n \in nsids |-> CollectionCommits([i \in 1..Len(Of(n)) |-> Of(n)[i][2]])],
        account_removes |-> removes]

is_empty(b) == DOMAIN b.commits_by_nsid = {} /\ b.account_removes = <<>>

AllCommits(b) ==
    UNION {{b.commits_by_nsid[n].commits[i] : i \in 1..Len(b.commits_by_nsid[n].commits)}
           : n \in DOMAIN b.commits_by_nsid}

RECURSIVE MaxOf(_, _)
MaxOf(S, start) ==
    IF S = {} THEN start
    ELSE LET x == CHOOSE y \in S : TRUE IN MaxOf(S \ {x}, Max(start, x))

\* latest_cursor looking at the commits alone
latest_cursor_commits_only(b) == MaxOf({c.cursor : c \in AllCommits(b)}, 0)

latest_cursor(b) ==
    LET oldest == MaxOf({c.cursor : c \in AllCommits(b)}, 0)
        n == Len(b.account_removes)
        withDel == IF n > 0 /\ b.account_removes[n].cursor > oldest
                   THEN b.account_removes[n].cursor ELSE oldest
    IN withDel

\* Option<Cursor>
Some(c) == <<c>>

Nothing == <<>>

\* ------------------------------------------------------------------ writer
\* insert_static_neu: an unbatched write of one fixed key
insert_static_neu(ks, key, value) == [ks EXCEPT !.global = Insert(@, key, value)]

\* the operations insert_batch puts into its one batch
insert_batch_ops(b) ==
    LET latest == latest_cursor(b)
        CommitOps(nsid, commit) ==
            LET location_key == RecordLocationKey(commit.did, nsid, commit.rkey)
            IN IF commit.action.kind = "cut"
               THEN <<BatchRemove("records", location_key)>>
               ELSE <<BatchInsert("feeds", NsidRecordFeedKey(nsid, commit.cursor),
                                  [did |-> commit.did, rkey |-> commit.rkey, rev |-> commit.rev]),
                      BatchInsert("records", location_key,
                                  [cursor |-> commit.cursor, rev |-> commit.rev,
                                   record |-> commit.action.record,
                                   is_update |-> commit.action.is_update])>>
        CommitsOps(nsid, commits) ==
            LET F[i \in 0..Len(commits)] ==
                    IF i = 0 THEN <<>> ELSE F[i - 1] \o CommitOps(nsid, commits[i])
            IN F[Len(commits)]
        NsidOps(nsid) ==
            LET commits == b.commits_by_nsid[nsid]
            IN CommitsOps(nsid, commits.commits)
               \o <<BatchInsert("rollups", LiveCountsKey(latest, nsid),
                                CountsValue(commits.total_seen, commits.dids_estimate))>>
        AllNsidOps ==
            LET F[i \in 0..Len(NSIDS)] ==
                    IF i = 0 THEN <<>>
                    ELSE IF NSIDS[i] \in DOMAIN b.commits_by_nsid
                         THEN F[i - 1] \o NsidOps(NSIDS[i]) ELSE F[i - 1]
            IN F[Len(NSIDS)]
        RemoveOps ==
            [i \in 1..Len(b.account_removes) |->
                BatchInsert("queues", DeleteAccountQueueKey(b.account_removes[i].cursor),
                            b.account_removes[i].did)]
    IN AllNsidOps \o RemoveOps \o <<BatchInsert("global", JetstreamCursorKey, latest)>>

\* insert_batch writing the jetstream cursor on its own, ahead of the batch
insert_batch_cursor_first(ks, b, io_ok) ==
    IF is_empty(b) THEN [ks |-> ks, ok |-> TRUE]
    ELSE LET first == insert_static_neu(ks, JetstreamCursorKey, latest_cursor(b))
         IN IF io_ok THEN [ks |-> Commit(first, insert_batch_ops(b)), ok |-> TRUE]
            ELSE [ks |-> first, ok |-> FALSE]

\* insert_batch committing its batch without the test for an empty one
insert_batch_commits_empty(ks, b, io_ok) ==
    IF io_ok THEN [ks |-> Commit(ks, insert_batch_ops(b)), ok |-> TRUE]
    ELSE [ks |-> ks, ok |-> FALSE]

\* insert_batch: io_ok is whether the batch's commit succeeds
insert_batch(ks, b, io_ok) ==
    IF is_empty(b) THEN [ks |-> ks, ok |-> TRUE]
    ELSE IF io_ok THEN [ks |-> Commit(ks, insert_batch_ops(b)), ok |-> TRUE]
    ELSE [ks |-> ks, ok |-> FALSE]

\* delete_account giving up after the first row
delete_account_first_row(ks, did) ==
    LET keys == SetToSeq({k \in DOMAIN ks.records : k[1] = did})
    IN IF keys = <<>> THEN [ks |-> ks, records_deleted |-> 0]
       ELSE [ks |-> Commit(ks, <<BatchRemove("records", keys[1])>>), records_deleted |-> 1]

\* delete_account: the records rows under the DID's prefix, removed in
\* batches committed every MAX_BATCHED_ACCOUNT_DELETE_RECORDS rows
delete_account(ks, did) ==
    LET keys == SetToSeq({k \in DOMAIN ks.records : k[1] = did})
        F[i \in 0..Len(keys)] ==
            IF i = 0 THEN [ks |-> ks, batch |-> <<>>, records_deleted |-> 0]
            ELSE With(F[i - 1], LAMBDA prev :
                    With(Append(prev.batch, BatchRemove("records", keys[i])), LAMBDA batch :
                        IF Len(batch) >= MAX_BATCHED_ACCOUNT_DELETE_RECORDS
                        THEN [ks |-> Commit(prev.ks, batch), batch |-> <<>>,
                              records_deleted |-> prev.records_deleted + 1]
                        ELSE [ks |-> prev.ks, batch |-> batch,
                              records_deleted |-> prev.records_deleted + 1]))
    IN With(F[Len(keys)], LAMBDA end :
            [ks |-> Commit(end.ks, end.batch), records_deleted |-> end.records_deleted])

\* the batch of rollup_delete_account without the new roll-up cursor
rollup_delete_account_batch_queue_only(cursor) ==
    <<BatchRemove("queues", DeleteAccountQueueKey(cursor))>>

\* the batch of rollup_delete_account with the roll-up cursor past the delete
rollup_delete_account_batch_past(cursor) ==
    <<BatchRemove("queues", DeleteAccountQueueKey(cursor)),
      BatchInsert("global", NewRollupCursorKey, cursor + 1)>>

\* the batch rollup_delete_account commits once delete_account has returned
rollup_delete_account_batch(cursor) ==
    <<BatchRemove("queues", DeleteAccountQueueKey(cursor)),
      BatchInsert("global", NewRollupCursorKey, cursor)>>

\* rollup_delete_account taking the delete off the queue without deleting
\* the account's records
rollup_delete_account_queue_only(ks, cursor, did) ==
    LET batch == <<BatchRemove("queues", DeleteAccountQueueKey(cursor)),
                   BatchInsert("global", NewRollupCursorKey, cursor)>>
    IN [ks |-> Commit(ks, batch), n |-> 1, dirty |-> {}]

rollup_delete_account(ks, cursor, did) ==
    With(delete_account(ks, did), LAMBDA deleted :
        [ks |-> Commit(deleted.ks, rollup_delete_account_batch(cursor)),
         n |-> 1, dirty |-> {}])

\* the live cells rollup_live_counts folds: the iterator's items up to the
\* rollup limit, stopping at the first one past the cursor limit
RECURSIVE Folded(_, _, _, _)
Folded(timelies, i, cursor_exclusive_limit, rollup_limit) ==
    IF timelies = <<>> THEN <<>>
    ELSE IF i >= rollup_limit THEN <<>>
    ELSE IF cursor_exclusive_limit # Nothing /\ Head(timelies)[2] > cursor_exclusive_limit[1]
         THEN <<>>
    ELSE <<Head(timelies)>>
         \o Folded(Tail(timelies), i + 1, cursor_exclusive_limit, rollup_limit)

Hourly(nsid, hour) == <<nsid, "hourly", hour>>

Weekly(nsid, week) == <<nsid, "weekly", week>>

AllTime(nsid) == <<nsid, "ever", 0>>

\* the cells a live cell is folded into, without the weekly one
RollupsOf_no_weekly(key) ==
    {Hourly(key[3], HourTruncatedCursor(key[2])),
     AllTime(key[3])}

RollupsOf(key) ==
    {Hourly(key[3], HourTruncatedCursor(key[2])),
     Weekly(key[3], WeekTruncatedCursor(key[2])),
     AllTime(key[3])}

RollupKey(r) ==
    IF r[2] = "hourly" THEN HourlyRollupKey(r[3], r[1])
    ELSE IF r[2] = "weekly" THEN WeeklyRollupKey(r[3], r[1])
    ELSE AllTimeRollupKey(r[1])

RecordsRankKey(r, rank) ==
    IF r[2] = "hourly" THEN HourlyRecordsKey(r[3], rank, r[1])
    ELSE IF r[2] = "weekly" THEN WeeklyRecordsKey(r[3], rank, r[1])
    ELSE AllTimeRecordsKey(rank, r[1])

DidsRankKey(r, rank) ==
    IF r[2] = "hourly" THEN HourlyDidsKey(r[3], rank, r[1])
    ELSE IF r[2] = "weekly" THEN WeeklyDidsKey(r[3], rank, r[1])
    ELSE AllTimeDidsKey(rank, r[1])

\* the rank and cell operations for one rolled-up cell
\* rollup_cell_ops leaving the cell's old rank-records row in place
rollup_cell_ops_keep_rank(rollups, r, counts) ==
    LET before == IF RollupKey(r) \in DOMAIN rollups THEN rollups[RollupKey(r)]
                  ELSE CountsDefault
        before_dids_estimate == estimate(before.dids)
    IN With(merge(before, counts), LAMBDA rolled :
         LET new_estimate == estimate(rolled.dids)
             dids == IF new_estimate = before_dids_estimate THEN <<>>
                     ELSE <<BatchRemove("rollups", DidsRankKey(r, before_dids_estimate)),
                            BatchInsert("rollups", DidsRankKey(r, new_estimate), "")>>
         IN <<BatchInsert("rollups", RecordsRankKey(r, rolled.records), "")>>
            \o dids
            \o <<BatchInsert("rollups", RollupKey(r), rolled)>>)

rollup_cell_ops(rollups, r, counts) ==
    LET before == IF RollupKey(r) \in DOMAIN rollups THEN rollups[RollupKey(r)]
                  ELSE CountsDefault
        before_records_count == before.records
        before_dids_estimate == estimate(before.dids)
    IN With(merge(before, counts), LAMBDA rolled :
         LET new_estimate == estimate(rolled.dids)
             dids == IF new_estimate = before_dids_estimate THEN <<>>
                     ELSE <<BatchRemove("rollups", DidsRankKey(r, before_dids_estimate)),
                            BatchInsert("rollups", DidsRankKey(r, new_estimate), "")>>
         IN <<BatchRemove("rollups", RecordsRankKey(r, before_records_count)),
              BatchInsert("rollups", RecordsRankKey(r, rolled.records), "")>>
            \o dids
            \o <<BatchInsert("rollups", RollupKey(r), rolled)>>)

rollup_live_counts(ks, timelies, cursor_exclusive_limit, rollup_limit) ==
    With(Folded(timelies, 0, cursor_exclusive_limit, rollup_limit), LAMBDA folded :
      With(SetToSeq(UNION {RollupsOf(folded[i]) : i \in 1..Len(folded)}), LAMBDA touched :
        LET n == Len(folded)
            last_cursor == IF n = 0 THEN 0 ELSE folded[n][2]
            removes == [i \in 1..n |-> BatchRemove("rollups", folded[i])]
            counts(r) ==
                LET F[i \in 0..n] ==
                        IF i = 0 THEN CountsDefault
                        ELSE IF r \in RollupsOf(folded[i])
                             THEN merge(F[i - 1], ks.rollups[folded[i]]) ELSE F[i - 1]
                IN F[n]
            cells ==
                LET F[i \in 0..Len(touched)] ==
                        IF i = 0 THEN <<>>
                        ELSE F[i - 1]
                             \o rollup_cell_ops(ks.rollups, touched[i], counts(touched[i]))
                IN F[Len(touched)]
            batch == removes \o cells
                     \o <<BatchInsert("global", NewRollupCursorKey, last_cursor)>>
        IN [ks |-> Commit(ks, batch), n |-> n, dirty |-> {folded[i][3] : i \in 1..n}]))

\* step_rollup executing the next queued delete whenever there is one
step_rollup_delete_first(ks) ==
    With(SortLive(range_from_cursor(ks.rollups, ks.global[NewRollupCursorKey])),
         LAMBDA timely_iter :
      With(queue_range_to_prefix_end(ks.queues, ks.global[NewRollupCursorKey]),
           LAMBDA deletes :
        LET delete_cursor == CHOOSE c \in {k[1] : k \in deletes} :
                                \A k \in deletes : c <= k[1]
            did == ks.queues[DeleteAccountQueueKey(delete_cursor)]
        IN IF deletes # {}
           THEN With(rollup_delete_account(ks, delete_cursor, did),
                     LAMBDA r : [ks |-> r.ks, n |-> r.n, dirty |-> r.dirty,
                                 kind |-> "delete", cursor |-> delete_cursor, did |-> did])
           ELSE IF timely_iter # <<>>
           THEN With(rollup_live_counts(ks, timely_iter, Nothing, MAX_BATCHED_ROLLUP_COUNTS),
                     LAMBDA r : [ks |-> r.ks, n |-> r.n, dirty |-> r.dirty,
                                 kind |-> "fold", cursor |-> 0, did |-> ""])
           ELSE [ks |-> ks, n |-> 0, dirty |-> {}, kind |-> "none",
                 cursor |-> 0, did |-> ""]))

\* step_rollup leaving the queue alone once no live cell is ahead
step_rollup_counts_only(ks) ==
    With(SortLive(range_from_cursor(ks.rollups, ks.global[NewRollupCursorKey])),
         LAMBDA timely_iter :
      With(queue_range_to_prefix_end(ks.queues, ks.global[NewRollupCursorKey]),
           LAMBDA deletes :
        LET delete_cursor == CHOOSE c \in {k[1] : k \in deletes} :
                                \A k \in deletes : c <= k[1]
            did == ks.queues[DeleteAccountQueueKey(delete_cursor)]
            fold(limit) ==
                With(rollup_live_counts(ks, timely_iter, limit, MAX_BATCHED_ROLLUP_COUNTS),
                     LAMBDA r : [ks |-> r.ks, n |-> r.n, dirty |-> r.dirty,
                                 kind |-> "fold", cursor |-> 0, did |-> ""])
            delete ==
                With(rollup_delete_account(ks, delete_cursor, did),
                     LAMBDA r : [ks |-> r.ks, n |-> r.n, dirty |-> r.dirty,
                                 kind |-> "delete", cursor |-> delete_cursor, did |-> did])
        IN IF timely_iter # <<>> /\ deletes # {}
           THEN IF timely_iter[1][2] < delete_cursor
                THEN fold(Some(delete_cursor)) ELSE delete
           ELSE IF timely_iter # <<>> THEN fold(Nothing)
           ELSE [ks |-> ks, n |-> 0, dirty |-> {}, kind |-> "none",
                 cursor |-> 0, did |-> ""]))

\* step_rollup: one step of the roll-up, a fold of live cells or the next
\* queued account delete, whichever has the lower cursor; a fold takes
\* max_batched_rollup_counts live cells at most
step_rollup_upto(ks, max_batched_rollup_counts) ==
    With(SortLive(range_from_cursor(ks.rollups, ks.global[NewRollupCursorKey])),
         LAMBDA timely_iter :
      With(queue_range_to_prefix_end(ks.queues, ks.global[NewRollupCursorKey]),
           LAMBDA deletes :
        LET delete_cursor == CHOOSE c \in {k[1] : k \in deletes} :
                                \A k \in deletes : c <= k[1]
            did == ks.queues[DeleteAccountQueueKey(delete_cursor)]
            fold(limit) ==
                With(rollup_live_counts(ks, timely_iter, limit, max_batched_rollup_counts),
                     LAMBDA r : [ks |-> r.ks, n |-> r.n, dirty |-> r.dirty,
                                 kind |-> "fold", cursor |-> 0, did |-> ""])
            delete ==
                With(rollup_delete_account(ks, delete_cursor, did),
                     LAMBDA r : [ks |-> r.ks, n |-> r.n, dirty |-> r.dirty,
                                 kind |-> "delete", cursor |-> delete_cursor, did |-> did])
        IN IF timely_iter # <<>> /\ deletes # {}
           THEN IF timely_iter[1][2] < delete_cursor
                THEN fold(Some(delete_cursor)) ELSE delete
           ELSE IF timely_iter # <<>> THEN fold(Nothing)
           ELSE IF deletes # {} THEN delete
           ELSE [ks |-> ks, n |-> 0, dirty |-> {}, kind |-> "none",
                 cursor |-> 0, did |-> ""]))

step_rollup(ks) == step_rollup_upto(ks, MAX_BATCHED_ROLLUP_COUNTS)

\* ------------------------------------------------------------------ reader
get_counts_by_collection(ks, collection) ==
    LET all_time_key == AllTimeRollupKey(collection)
        total == IF all_time_key \in DOMAIN ks.rollups THEN ks.rollups[all_time_key]
                 ELSE CountsDefault
        rollup_cursor == ks.global[NewRollupCursorKey]
        full_range == SortLive(range_from_cursor(ks.rollups, rollup_cursor))
        F[i \in 0..Len(full_range)] ==
            IF i = 0 THEN total
            ELSE IF full_range[i][3] = collection
                 THEN merge(F[i - 1], ks.rollups[full_range[i]]) ELSE F[i - 1]
        total_counts == F[Len(full_range)]
    IN <<total_counts.records, estimate(total_counts.dids)>>

\* get_record taking the record at the location whatever its cursor and rev
get_record_any_version(ks, feed_key) ==
    LET feed_val == ks.feeds[feed_key]
        location_key == RecordLocationKey(feed_val.did, feed_key[1], feed_val.rkey)
    IN IF location_key \notin DOMAIN ks.records THEN Nothing
       ELSE LET meta == ks.records[location_key]
            IN Some([collection |-> feed_key[1], cursor |-> feed_key[2],
                     did |-> feed_val.did, rkey |-> feed_val.rkey,
                     rev |-> meta.rev, record |-> meta.record,
                     is_update |-> meta.is_update])

\* RecordIterator::get_record: the record a feed entry points at, if it is
\* still that version
get_record(ks, feed_key) ==
    LET feed_val == ks.feeds[feed_key]
        location_key == RecordLocationKey(feed_val.did, feed_key[1], feed_val.rkey)
    IN IF location_key \notin DOMAIN ks.records THEN Nothing
       ELSE LET meta == ks.records[location_key]
            IN IF meta.cursor # feed_key[2] THEN Nothing
               ELSE IF meta.rev # feed_val.rev THEN Nothing
               ELSE Some([collection |-> feed_key[1], cursor |-> feed_key[2],
                          did |-> feed_val.did, rkey |-> feed_val.rkey,
                          rev |-> meta.rev, record |-> meta.record,
                          is_update |-> meta.is_update])

\* the feed keys of a collection, newest first
RECURSIVE FeedRev(_)
FeedRev(S) ==
    IF S = {} THEN <<>>
    ELSE LET m == CHOOSE x \in S : \A y \in S : y[2] <= x[2]
         IN <<m>> \o FeedRev(S \ {m})

\* what a RecordIterator over the collection yields before its limit
RecordIterator(ks, collection) ==
    LET keys == FeedRev({k \in DOMAIN ks.feeds : k[1] = collection})
        F[i \in 0..Len(keys)] ==
            IF i = 0 THEN <<>> ELSE F[i - 1] \o get_record(ks, keys[i])
    IN F[Len(keys)]

\* the merge taking the first head it peeks instead of the latest
RECURSIVE MergeRecords_first_head(_, _, _, _, _)
MergeRecords_first_head(iters, fetched, limit, expand_each_collection, merged) ==
    LET heads == {i \in 1..Len(iters) : fetched[i] < limit /\ fetched[i] < Len(iters[i])}
    IN IF heads = {} THEN merged
       ELSE LET idx == CHOOSE i \in heads : \A j \in heads : i <= j
            IN MergeRecords_first_head(iters, [fetched EXCEPT ![idx] = @ + 1], limit,
                                       expand_each_collection,
                                       Append(merged, iters[idx][fetched[idx] + 1]))

\* the merge loop: every pass peeks the iterators in order, stops at one that
\* has reached its limit unless expanding, and takes the latest head
RECURSIVE MergeRecords(_, _, _, _, _)
MergeRecords(iters, fetched, limit, expand_each_collection, merged) ==
    LET n == Len(iters)
        \* the pass over the peeked heads: the latest head and whether the pass broke off
        F[i \in 0..n] ==
            IF i = 0 THEN [latest |-> Nothing, broke |-> FALSE]
            ELSE LET prev == F[i - 1]
                 IN IF prev.broke THEN prev
                    ELSE IF fetched[i] = limit
                         THEN IF expand_each_collection THEN prev
                              ELSE [prev EXCEPT !.broke = TRUE]
                    ELSE IF fetched[i] >= Len(iters[i]) THEN prev
                    ELSE LET rec == iters[i][fetched[i] + 1]
                         IN IF prev.latest = Nothing \/ rec.cursor > prev.latest[1]
                            THEN [prev EXCEPT !.latest = <<rec.cursor, i>>]
                            ELSE prev
        latest == F[n].latest
    IN IF latest = Nothing THEN merged
       ELSE MergeRecords(iters, [fetched EXCEPT ![latest[2]] = @ + 1], limit,
                         expand_each_collection,
                         Append(merged, iters[latest[2]][fetched[latest[2]] + 1]))

\* the query stopping at the first exhausted limit whatever expand is
get_records_by_collections_overall(ks, collections, limit, expand_each_collection) ==
    IF collections = <<>> THEN <<>>
    ELSE MergeRecords([i \in 1..Len(collections) |-> RecordIterator(ks, collections[i])],
                      [i \in 1..Len(collections) |-> 0], limit, FALSE, <<>>)

get_records_by_collections(ks, collections, limit, expand_each_collection) ==
    IF collections = <<>> THEN <<>>
    ELSE MergeRecords([i \in 1..Len(collections) |-> RecordIterator(ks, collections[i])],
                      [i \in 1..Len(collections) |-> 0], limit,
                      expand_each_collection, <<>>)

\* rank keys of a family by falling rank, equal ranks by rising collection
RECURSIVE RankRev_ties_ascending(_)
RankRev_ties_ascending(S) ==
    IF S = {} THEN <<>>
    ELSE LET m == CHOOSE x \in S : \A y \in S \ {x} :
                      \/ y[2] < x[2]
                      \/ y[2] = x[2] /\ NsidIndex(y[3]) > NsidIndex(x[3])
         IN <<m>> \o RankRev_ties_ascending(S \ {m})

\* rank keys of a family, highest first
RECURSIVE RankRev(_)
RankRev(S) ==
    IF S = {} THEN <<>>
    ELSE LET m == CHOOSE x \in S : \A y \in S \ {x} :
                      \/ y[2] < x[2]
                      \/ y[2] = x[2] /\ NsidIndex(y[3]) < NsidIndex(x[3])
         IN <<m>> \o RankRev(S \ {m})

\* get_top_collections_by_count / _by_dids: the rows pushed, and whether the
\* expect or the assert_eq of a visited row failed
get_top_collections_by(ks, family, limit) ==
    LET keys == RankRev({k \in DOMAIN ks.rollups : k[1] = family})
        taken == SubSeq(keys, 1, Min(limit, Len(keys)))
        good(key) ==
            /\ AllTimeRollupKey(key[3]) \in DOMAIN ks.rollups
            /\ LET db_counts == ks.rollups[AllTimeRollupKey(key[3])]
               IN IF family = "ever_rank_records" THEN db_counts.records = key[2]
                  ELSE estimate(db_counts.dids) = key[2]
        F[i \in 0..Len(taken)] ==
            IF i = 0 THEN [panicked |-> FALSE, out |-> <<>>]
            ELSE LET prev == F[i - 1]
                 IN IF prev.panicked THEN prev
                    ELSE IF ~good(taken[i]) THEN [prev EXCEPT !.panicked = TRUE]
                    ELSE LET c == ks.rollups[AllTimeRollupKey(taken[i][3])]
                         IN [prev EXCEPT !.out =
                                Append(@, [nsid |-> taken[i][3], records |-> c.records,
                                           dids_estimate |-> estimate(c.dids)])]
    IN F[Len(taken)]

get_top_collections_by_count(ks, limit) ==
    get_top_collections_by(ks, "ever_rank_records", limit)

get_top_collections_by_dids(ks, limit) ==
    get_top_collections_by(ks, "ever_rank_dids", limit)

\* the collections of the hierarchical query, one of them a parent of another
TreeNsids == {"a.a.a", "a.a.a.a", "a.a.b", "a.b.c"}

\* key.collection().split('.')
split(nsid) ==
    CASE nsid = "a.a.a" -> <<"a", "a", "a">>
      [] nsid = "a.a.a.a" -> <<"a", "a", "a", "a">>
      [] nsid = "a.a.b" -> <<"a", "a", "b">>
      [] nsid = "a.b.c" -> <<"a", "b", "c">>

\* a Blah tree as the function from the segment path of every node to the
\* node's counts; the root is at the empty path
node_counts(tree, path) == IF path \in DOMAIN tree THEN tree[path] ELSE CountsDefault

\* the walk merging a cell into the leaf of its collection alone
tree_merge_leaf_only(tree, segments, val) ==
    [p \in DOMAIN tree \cup {segments} |->
        IF p = segments THEN merge(node_counts(tree, p), val) ELSE tree[p]]

\* the walk of one all-time cell: merged into the root, then into the child
\* of every further segment, the child being created if it is not there
tree_merge(tree, segments, val) ==
    LET F[i \in 0..Len(segments)] ==
            LET path == SubSeq(segments, 1, i)
                before == IF i = 0 THEN tree ELSE F[i - 1]
            IN [p \in DOMAIN before \cup {path} |->
                   IF p = path THEN merge(node_counts(before, p), val) ELSE before[p]]
    IN F[Len(segments)]

\* the collections of the model in the byte order of their AllTimeRollupKey
NsidOrder == <<"a.a.a", "a.a.a.a", "a.a.b", "a.b.c">>

KeyIndex(n) == CHOOSE i \in 1..Len(NsidOrder) : NsidOrder[i] = n

\* the all-time cells from the start bound on, in key order
RECURSIVE AllTimeRange(_, _)
AllTimeRange(ks, from) ==
    IF from > Len(NsidOrder) THEN <<>>
    ELSE (IF AllTimeRollupKey(NsidOrder[from]) \in DOMAIN ks.rollups
          THEN <<NsidOrder[from]>> ELSE <<>>)
         \o AllTimeRange(ks, from + 1)

NsidCount(ks, nsid) ==
    [nsid |-> nsid,
     records |-> ks.rollups[AllTimeRollupKey(nsid)].records,
     dids_estimate |-> estimate(ks.rollups[AllTimeRollupKey(nsid)].dids)]

\* get_all_collections whose range includes the cursor's key
get_all_collections_inclusive(ks, limit, cursor) ==
    LET range == AllTimeRange(ks, IF cursor = Nothing THEN 1 ELSE KeyIndex(cursor[1]))
        taken == SubSeq(range, 1, Min(limit, Len(range)))
    IN [out |-> [i \in 1..Len(taken) |-> NsidCount(ks, taken[i])],
        next_cursor |-> IF limit >= 1 /\ Len(taken) = limit THEN Some(taken[limit])
                        ELSE Nothing]

\* get_all_collections for the all-time period: up to limit cells after the
\* cursor's key, with the last NSID as next_cursor when the limit was reached
get_all_collections(ks, limit, cursor) ==
    LET range == AllTimeRange(ks, IF cursor = Nothing THEN 1 ELSE KeyIndex(cursor[1]) + 1)
        taken == SubSeq(range, 1, Min(limit, Len(range)))
    IN [out |-> [i \in 1..Len(taken) |-> NsidCount(ks, taken[i])],
        next_cursor |-> IF limit >= 1 /\ Len(taken) = limit THEN Some(taken[limit])
                        ELSE Nothing]

\* get_top_collections: every node's total_records and dids_estimate
get_top_collections(ks) ==
    LET keys == SetToSeq({k \in DOMAIN ks.rollups : k[1] = "ever_counts"})
        b[i \in 0..Len(keys)] ==
            IF i = 0 THEN [p \in {<<>>} |-> CountsDefault]
            ELSE tree_merge(b[i - 1], split(keys[i][2]), ks.rollups[keys[i]])
    IN [p \in DOMAIN b[Len(keys)] |->
           [total_records |-> b[Len(keys)][p].records,
            dids_estimate |-> estimate(b[Len(keys)][p].dids)]]

\* ------------------------------------------------------------ trim and init
\* trim_collection with one of its steps changed: "one_more" keeps a record
\* more than the limit, "stale_record" removes the record a stale feed row
\* names, "last_cursor" stores the cursor of the last record removed,
\* "feed_only" leaves the record of a surplus feed row in place
trim_collection_variant(ks, collection, limit, full_scan, variant) ==
    LET trim_cursor_key == TrimCollectionCursorKey(collection)
        trim_cursor == IF trim_cursor_key \in DOMAIN ks.global
                       THEN ks.global[trim_cursor_key] ELSE 0
        live_range == IF full_scan THEN {k \in DOMAIN ks.feeds : k[1] = collection}
                      ELSE feed_range_to_prefix_end(ks.feeds, collection, trim_cursor)
        keys == FeedRev(live_range)
        start == [ks |-> ks, batch |-> <<>>, live_records_found |-> 0,
                  candidate |-> Nothing, ended_early |-> FALSE,
                  dangling |-> 0, records_deleted |-> 0]
        Step(st, i) ==
            LET feed_key == keys[i]
                feed_val == ks.feeds[feed_key]
                location_key == RecordLocationKey(feed_val.did, collection, feed_val.rkey)
                dangler(ops) == [st EXCEPT !.batch = @ \o ops, !.dangling = @ + 1]
            IN IF st.ended_early THEN st
               ELSE IF ~full_scan /\ i - 1 > 1000000 THEN [st EXCEPT !.ended_early = TRUE]
               ELSE IF location_key \notin DOMAIN st.ks.records
                    THEN dangler(<<BatchRemove("feeds", feed_key)>>)
               ELSE IF st.ks.records[location_key].cursor # feed_key[2]
                    THEN IF variant = "stale_record"
                         THEN dangler(<<BatchRemove("feeds", feed_key),
                                        BatchRemove("records", location_key)>>)
                         ELSE dangler(<<BatchRemove("feeds", feed_key)>>)
               ELSE IF st.ks.records[location_key].rev # feed_val.rev
                    THEN dangler(<<BatchRemove("feeds", feed_key),
                                   BatchRemove("records", location_key)>>)
               ELSE LET flushed == IF Len(st.batch) >= MAX_BATCHED_CLEANUP_SIZE
                                   THEN [st EXCEPT !.ks = Commit(st.ks, st.batch),
                                                   !.batch = <<>>]
                                   ELSE st
                        found == [flushed EXCEPT !.live_records_found = @ + 1]
                    IN IF found.live_records_found
                            <= (IF variant = "one_more" THEN limit + 1 ELSE limit) THEN found
                       ELSE [found EXCEPT
                                !.candidate = IF @ = Nothing \/ variant = "last_cursor"
                                              THEN Some(feed_key[2]) ELSE @,
                                !.batch = @ \o (IF variant = "feed_only"
                                                THEN <<BatchRemove("feeds", feed_key)>>
                                                ELSE <<BatchRemove("feeds", feed_key),
                                                       BatchRemove("records", location_key)>>),
                                !.records_deleted = @ + 1]
        F[i \in 0..Len(keys)] == IF i = 0 THEN start ELSE Step(F[i - 1], i)
        end == F[Len(keys)]
        batch == IF ~end.ended_early /\ end.candidate # Nothing
                 THEN Append(end.batch,
                             BatchInsert("global", trim_cursor_key, end.candidate[1]))
                 ELSE end.batch
    IN [ks |-> Commit(end.ks, batch), dangling |-> end.dangling,
        records_deleted |-> end.records_deleted]

\* trim_collection removing the feed row of a surplus record and not the record
trim_collection_feed_only(ks, collection, limit, full_scan) ==
    trim_collection_variant(ks, collection, limit, full_scan, "feed_only")

\* trim_collection keeping a record more than the limit
trim_collection_one_more(ks, collection, limit, full_scan) ==
    trim_collection_variant(ks, collection, limit, full_scan, "one_more")

\* trim_collection removing the record of a stale feed row
trim_collection_stale_record(ks, collection, limit, full_scan) ==
    trim_collection_variant(ks, collection, limit, full_scan, "stale_record")

\* trim_collection storing the cursor of the oldest record it removed
trim_collection_last_cursor(ks, collection, limit, full_scan) ==
    trim_collection_variant(ks, collection, limit, full_scan, "last_cursor")

trim_collection(ks, collection, limit, full_scan) ==
    LET trim_cursor_key == TrimCollectionCursorKey(collection)
        trim_cursor == IF trim_cursor_key \in DOMAIN ks.global
                       THEN ks.global[trim_cursor_key] ELSE 0
        live_range == IF full_scan THEN {k \in DOMAIN ks.feeds : k[1] = collection}
                      ELSE feed_range_to_prefix_end(ks.feeds, collection, trim_cursor)
        keys == FeedRev(live_range)
        start == [ks |-> ks, batch |-> <<>>, live_records_found |-> 0,
                  candidate |-> Nothing, ended_early |-> FALSE,
                  dangling |-> 0, records_deleted |-> 0]
        Step(st, i) ==
            LET feed_key == keys[i]
                feed_val == ks.feeds[feed_key]
                location_key == RecordLocationKey(feed_val.did, collection, feed_val.rkey)
                dangler(ops) == [st EXCEPT !.batch = @ \o ops, !.dangling = @ + 1]
            IN IF st.ended_early THEN st
               ELSE IF ~full_scan /\ i - 1 > 1000000 THEN [st EXCEPT !.ended_early = TRUE]
               ELSE IF location_key \notin DOMAIN st.ks.records
                    THEN dangler(<<BatchRemove("feeds", feed_key)>>)
               ELSE IF st.ks.records[location_key].cursor # feed_key[2]
                    THEN dangler(<<BatchRemove("feeds", feed_key)>>)
               ELSE IF st.ks.records[location_key].rev # feed_val.rev
                    THEN dangler(<<BatchRemove("feeds", feed_key),
                                   BatchRemove("records", location_key)>>)
               ELSE LET flushed == IF Len(st.batch) >= MAX_BATCHED_CLEANUP_SIZE
                                   THEN [st EXCEPT !.ks = Commit(st.ks, st.batch),
                                                   !.batch = <<>>]
                                   ELSE st
                        found == [flushed EXCEPT !.live_records_found = @ + 1]
                    IN IF found.live_records_found <= limit THEN found
                       ELSE [found EXCEPT
                                !.candidate = IF @ = Nothing THEN Some(feed_key[2]) ELSE @,
                                !.batch = @ \o <<BatchRemove("feeds", feed_key),
                                                 BatchRemove("records", location_key)>>,
                                !.records_deleted = @ + 1]
        F[i \in 0..Len(keys)] == IF i = 0 THEN start ELSE Step(F[i - 1], i)
        end == F[Len(keys)]
        batch == IF ~end.ended_early /\ end.candidate # Nothing
                 THEN Append(end.batch,
                             BatchInsert("global", trim_cursor_key, end.candidate[1]))
                 ELSE end.batch
    IN [ks |-> Commit(end.ks, batch), dangling |-> end.dangling,
        records_deleted |-> end.records_deleted]

\* init_static_neu: as insert_static_neu, an error if the key exists; r is
\* the keyspace so far and whether every earlier step returned Ok
init_static_neu(r, key, value) ==
    IF ~r.ok THEN r
    ELSE IF key \in DOMAIN r.ks.global THEN [ks |-> r.ks, ok |-> FALSE]
    ELSE [ks |-> insert_static_neu(r.ks, key, value), ok |-> TRUE]

\* background_tasks resetting the roll-up cursor whatever reroll is
background_tasks_always_reroll(ks, reroll) ==
    LET reset == insert_static_neu(ks, NewRollupCursorKey, 0)
        trims == SetToSeq({k \in DOMAIN ks.global : k[1] = "trim_cursor"})
    IN Commit(reset, [i \in 1..Len(trims) |-> BatchRemove("global", trims[i])])

\* background_tasks past its bg_taken check
background_tasks(ks, reroll) ==
    IF reroll
    THEN LET reset == insert_static_neu(ks, NewRollupCursorKey, 0)
             trims == SetToSeq({k \in DOMAIN ks.global : k[1] = "trim_cursor"})
         IN Commit(reset, [i \in 1..Len(trims) |-> BatchRemove("global", trims[i])])
    ELSE ks

\* FjallStorage::init on a keyspace directory: the keyspace it leaves,
\* whether it returned Ok, and the sketch secret it returned; random is what
\* getrandom::fill gives for a fresh secret.  With one of its steps changed:
\* "always_forces" replaces the stored endpoint whatever force_endpoint is,
\* "secret_on_force" stores a fresh secret when it forces the endpoint
init_variant(ks, endpoint, force_endpoint, random, variant) ==
    IF JetstreamCursorKey \in DOMAIN ks.global
    THEN IF JetstreamEndpointKey \notin DOMAIN ks.global
         THEN [ks |-> ks, ok |-> FALSE, sketch_secret |-> ""]
         ELSE IF SketchSecretKey \notin DOMAIN ks.global
         THEN [ks |-> ks, ok |-> FALSE, sketch_secret |-> ""]
         ELSE IF ks.global[JetstreamEndpointKey] # endpoint
              THEN IF force_endpoint \/ variant = "always_forces"
                   THEN IF variant = "secret_on_force"
                        THEN [ks |-> insert_static_neu(
                                        insert_static_neu(ks, JetstreamEndpointKey, endpoint),
                                        SketchSecretKey, random),
                              ok |-> TRUE, sketch_secret |-> random]
                        ELSE [ks |-> insert_static_neu(ks, JetstreamEndpointKey, endpoint),
                              ok |-> TRUE, sketch_secret |-> ks.global[SketchSecretKey]]
                   ELSE [ks |-> ks, ok |-> FALSE, sketch_secret |-> ""]
         ELSE [ks |-> ks, ok |-> TRUE, sketch_secret |-> ks.global[SketchSecretKey]]
    ELSE LET e == init_static_neu([ks |-> ks, ok |-> TRUE], JetstreamEndpointKey, endpoint)
             s == init_static_neu(e, SketchSecretKey, random)
             t == init_static_neu(s, TakeoffKey, 0)
             n == init_static_neu(t, NewRollupCursorKey, 0)
         IN [ks |-> n.ks, ok |-> n.ok, sketch_secret |-> IF n.ok THEN random ELSE ""]

init_always_forces(ks, endpoint, force_endpoint, random) ==
    init_variant(ks, endpoint, force_endpoint, random, "always_forces")

init_secret_on_force(ks, endpoint, force_endpoint, random) ==
    init_variant(ks, endpoint, force_endpoint, random, "secret_on_force")

init(ks, endpoint, force_endpoint, random) ==
    init_variant(ks, endpoint, force_endpoint, random, "")

EmptyKeyspace ==
    [global |-> EmptyPartition, feeds |-> EmptyPartition, records |-> EmptyPartition,
     rollups |-> EmptyPartition, queues |-> EmptyPartition]

\* ----------------------------------------------------------------- inputs
Create(v) == Put(v, FALSE)

Update(v) == Put(v, TRUE)

\* a commit's revision and action: a create, an update or a delete
Versions == {<<"r1", Create("p1")>>, <<"r2", Update("p2")>>, <<"r3", Cut>>}

\* commits of the given cursors, accounts, record keys and versions
Commits(cursors, dids, rkeys, versions) ==
    {UFOsCommit(c, d, k, v[1], v[2]) : c \in cursors, d \in dids, k \in rkeys,
                                       v \in versions}

Removes(cursors, dids) == {DeleteAccount(d, c) : d \in dids, c \in cursors}

\* batches of at most one commit and at most one account delete
SmallBatches(nsids, commits, removes) ==
    LET pairs == {<<>>} \cup {<<<<n, c>>>> : n \in nsids, c \in commits}
        rems == {<<>>} \cup {<<r>> : r \in removes}
    IN {EventBatch(p, r) : p \in pairs, r \in rems}

\* ------------------------------------------------------------------ history
\* the commits of the batch at a location, in the order insert_batch applies them
CommitsAt(b, loc) ==
    IF loc[2] \notin DOMAIN b.commits_by_nsid THEN <<>>
    ELSE SelectSeq(b.commits_by_nsid[loc[2]].commits,
                   LAMBDA c : c.did = loc[1] /\ c.rkey = loc[3])

Locations == DIDs \X NSIDSet \X RKeys

NoCommit == [cursor |-> 0, did |-> "", rkey |-> "", rev |-> "", action |-> Cut]

PutsIn(b) ==
    UNION {{<<n, b.commits_by_nsid[n].commits[i].cursor, b.commits_by_nsid[n].commits[i].did,
              b.commits_by_nsid[n].commits[i].rkey>> :
                i \in {j \in 1..Len(b.commits_by_nsid[n].commits) :
                          b.commits_by_nsid[n].commits[j].action.kind = "put"}}
           : n \in DOMAIN b.commits_by_nsid}

CreatesIn(b, n) ==
    IF n \notin DOMAIN b.commits_by_nsid THEN 0
    ELSE Len(SelectSeq(b.commits_by_nsid[n].commits, LAMBDA c : is_create(c.action)))

\* ------------------------------------------------------------------- states
Init ==
    /\ keyspace = init(EmptyKeyspace, "wss://one", FALSE, "secret").ks
    /\ bg_taken = FALSE
    /\ running = TRUE
    /\ nbatches = 0
    /\ creates = [n \in NSIDSet |-> 0]
    /\ lastCommit = [loc \in Locations |-> NoCommit]
    /\ puts = {}
    /\ op = [name |-> "init", endpoint |-> "wss://one", force_endpoint |-> FALSE,
             ok |-> TRUE, sketch_secret |-> "secret"]
    /\ pending = Nothing
    /\ reader = Nothing
    /\ batcher = NewBatcher
    /\ pager = Nothing

\* insert_batch(b); io_ok is whether the batch commit succeeds
InsertBatch(b, io_ok) ==
    /\ running
    /\ LET r == insert_batch(keyspace, b, io_ok)
       IN /\ keyspace' = r.ks
          /\ op' = [name |-> "insert_batch", batch |-> b, ok |-> r.ok]
          /\ nbatches' = IF is_empty(b) THEN nbatches ELSE nbatches + 1
          /\ creates' = IF r.ok /\ ~is_empty(b)
                        THEN [n \in NSIDSet |-> creates[n] + CreatesIn(b, n)]
                        ELSE creates
          /\ lastCommit' = IF r.ok /\ ~is_empty(b)
                           THEN [loc \in Locations |->
                                    LET cs == CommitsAt(b, loc)
                                    IN IF cs = <<>> THEN lastCommit[loc] ELSE cs[Len(cs)]]
                           ELSE lastCommit
          /\ puts' = IF r.ok /\ ~is_empty(b) THEN puts \cup PutsIn(b) ELSE puts
    /\ UNCHANGED <<bg_taken, running, pending, reader, batcher, pager>>

StepRollup ==
    /\ running
    /\ \E r \in {step_rollup(keyspace)} :
          /\ keyspace' = r.ks
          /\ op' = [name |-> "step_rollup", kind |-> r.kind, n |-> r.n,
                    cursor |-> r.cursor, did |-> r.did, dirty |-> r.dirty]
    /\ UNCHANGED <<bg_taken, running, nbatches, creates, lastCommit, puts, pending, reader, batcher, pager>>

\* step_rollup with RollupLimit as its MAX_BATCHED_ROLLUP_COUNTS
StepRollupShort ==
    /\ running
    /\ \E r \in {step_rollup_upto(keyspace, RollupLimit)} :
          /\ keyspace' = r.ks
          /\ op' = [name |-> "step_rollup", kind |-> r.kind, n |-> r.n,
                    cursor |-> r.cursor, did |-> r.did, dirty |-> r.dirty]
    /\ UNCHANGED <<bg_taken, running, nbatches, creates, lastCommit, puts, pending, reader, batcher, pager>>

\* a step_rollup that folds live cells or finds nothing to do: one commit
StepRollupFolds ==
    /\ pending = Nothing
    /\ step_rollup(keyspace).kind # "delete"
    /\ StepRollup

\* a step_rollup that finds the next queued delete due, up to the return of
\* delete_account: the account's records rows are removed and committed,
\* the batch that takes the delete off the queue is not yet built
RollupDeleteAccountStarts ==
    /\ running
    /\ pending = Nothing
    /\ LET r == step_rollup(keyspace)
       IN /\ r.kind = "delete"
          /\ LET deleted == delete_account(keyspace, r.did)
             IN /\ keyspace' = deleted.ks
                /\ pending' = Some([name |-> "rollup_delete_account", cursor |-> r.cursor,
                                    did |-> r.did,
                                    records_deleted |-> deleted.records_deleted])
                /\ op' = [name |-> "rollup_delete_account", did |-> r.did,
                          cursor |-> r.cursor, committed |-> "records"]
    /\ UNCHANGED <<bg_taken, running, nbatches, creates, lastCommit, puts, reader, batcher, pager>>

\* the rest of that step: the queue entry and the roll-up cursor, one commit
RollupDeleteAccountCommits ==
    /\ running
    /\ pending # Nothing
    /\ pending[1].name = "rollup_delete_account"
    /\ keyspace' = Commit(keyspace, rollup_delete_account_batch(pending[1].cursor))
    /\ pending' = Nothing
    /\ op' = [name |-> "rollup_delete_account", did |-> pending[1].did,
              cursor |-> pending[1].cursor, committed |-> "queue"]
    /\ UNCHANGED <<bg_taken, running, nbatches, creates, lastCommit, puts, reader, batcher, pager>>

DeleteAccountNow(did) ==
    /\ running
    /\ LET r == delete_account(keyspace, did)
       IN /\ keyspace' = r.ks
          /\ op' = [name |-> "delete_account", did |-> did, n |-> r.records_deleted]
    /\ UNCHANGED <<bg_taken, running, nbatches, creates, lastCommit, puts, pending, reader, batcher, pager>>

TrimCollection(collection, limit, full_scan) ==
    /\ running
    /\ LET r == trim_collection(keyspace, collection, limit, full_scan)
       IN /\ keyspace' = r.ks
          /\ op' = [name |-> "trim_collection", collection |-> collection,
                    limit |-> limit, full_scan |-> full_scan,
                    dangling |-> r.dangling, records_deleted |-> r.records_deleted]
    /\ UNCHANGED <<bg_taken, running, nbatches, creates, lastCommit, puts, pending, reader, batcher, pager>>

\* background_tasks on the writer or on a clone of it (the clones share the
\* one bg_taken); swaps is whether the flag is set by the test that reads it
BackgroundTasksWith(reroll, swaps) ==
    /\ running
    /\ bg_taken' = IF swaps THEN TRUE ELSE bg_taken
    /\ IF bg_taken
       THEN /\ op' = [name |-> "background_tasks", reroll |-> reroll, ok |-> FALSE,
                      err |-> "BackgroundAlreadyStarted"]
            /\ UNCHANGED keyspace
       ELSE /\ keyspace' = background_tasks(keyspace, reroll)
            /\ op' = [name |-> "background_tasks", reroll |-> reroll, ok |-> TRUE,
                      err |-> ""]
    /\ UNCHANGED <<running, nbatches, creates, lastCommit, puts, pending, reader, batcher, pager>>

\* background_tasks reading bg_taken without setting it
BackgroundTasks_load(reroll) == BackgroundTasksWith(reroll, FALSE)

BackgroundTasks(reroll) == BackgroundTasksWith(reroll, TRUE)

\* the process is restarted: FjallStorage::init on the keyspace left behind
Reopen(endpoint, force_endpoint) ==
    /\ \E random \in Secrets :
          LET r == init(keyspace, endpoint, force_endpoint, random)
          IN /\ keyspace' = r.ks
             /\ running' = r.ok
             /\ op' = [name |-> "init", endpoint |-> endpoint,
                       force_endpoint |-> force_endpoint, ok |-> r.ok,
                       sketch_secret |-> r.sketch_secret]
    /\ bg_taken' = FALSE
    /\ pending' = Nothing
    /\ reader' = Nothing
    /\ batcher' = NewBatcher
    /\ pager' = Nothing
    /\ UNCHANGED <<nbatches, creates, lastCommit, puts>>

\* the client calls get_all_collections for the all-time period: the first
\* page with a limit of its choice, then the next page with the same limit
\* and the cursor the last page came with
GetAllCollections(limit) ==
    /\ running
    /\ IF pager = Nothing THEN TRUE
       ELSE pager[1].next_cursor # Nothing /\ pager[1].limit = limit
    /\ LET cursor == IF pager = Nothing THEN Nothing ELSE pager[1].next_cursor
           r == get_all_collections(keyspace, limit, cursor)
       IN /\ pager' = Some([limit |-> limit, next_cursor |-> r.next_cursor,
                            seen |-> (IF pager = Nothing THEN <<>> ELSE pager[1].seen)
                                     \o [i \in 1..Len(r.out) |-> r.out[i].nsid],
                            calls |-> IF pager = Nothing THEN 1 ELSE pager[1].calls + 1])
          /\ op' = [name |-> "get_all_collections", limit |-> limit, cursor |-> cursor,
                    out |-> r.out, next_cursor |-> r.next_cursor]
    /\ UNCHANGED <<keyspace, bg_taken, running, nbatches, creates, lastCommit, puts, pending,
                   reader, batcher>>

\* the reader calls get_top_collections
GetTopCollections ==
    /\ running
    /\ op' = [name |-> "get_top_collections", tops |-> get_top_collections(keyspace)]
    /\ UNCHANGED <<keyspace, bg_taken, running, nbatches, creates, lastCommit, puts, pending,
                   reader, batcher, pager>>

\* the consumer hands a commit to truncating_insert
TruncatingInsert(commit) ==
    /\ LET r == truncating_insert(batcher.cc, commit)
           gone == IF r.err = "" /\ Len(batcher.cc.commits) = LIMIT
                   THEN {batcher.cc.commits[i] : i \in {j \in 1..LIMIT :
                            batcher.cc.commits[j] # r.cc.commits[j]}}
                   ELSE {}
       IN /\ batcher' = [cc |-> r.cc,
                         accepted |-> IF r.err = "" THEN Append(batcher.accepted, commit)
                                      ELSE batcher.accepted,
                         evicted |-> batcher.evicted \cup gone,
                         calls |-> batcher.calls + 1]
          /\ op' = [name |-> "truncating_insert", commit |-> commit, err |-> r.err,
                    rejected |-> IF r.err = "BatchFull" THEN Some(commit) ELSE Nothing,
                    evicted |-> gone]
    /\ UNCHANGED <<keyspace, bg_taken, running, nbatches, creates, lastCommit, puts, pending,
                   reader, pager>>

\* what a batch commit leaves of the keyspace cur when its removes and
\* inserts were computed from the keyspace before: the keys the step removed
\* are removed, the keys it wrote are written, the rest is as cur has it
StaleCommit(cur, before, after) ==
    [p \in DOMAIN cur |->
        LET removed == DOMAIN before[p] \ DOMAIN after[p]
            written == {k \in DOMAIN after[p] :
                          k \notin DOMAIN before[p] \/ before[p][k] # after[p][k]}
        IN [k \in (DOMAIN cur[p] \ removed) \cup written |->
               IF k \in written THEN after[p][k] ELSE cur[p][k]]]

\* a tick of FjallBackground::run, up to the commit of its step: the roll-up
\* tick calls step_rollup, the trim tick trim_collection without full_scan;
\* the step has read the store and built its batch
BackgroundReads(step, collection) ==
    /\ running
    /\ bg_taken
    /\ pending = Nothing
    /\ pending' = Some([name |-> step, before |-> keyspace,
                        after |-> IF step = "step_rollup" THEN step_rollup(keyspace).ks
                                  ELSE trim_collection(keyspace, collection,
                                                       TrimLimit, FALSE).ks])
    /\ op' = [name |-> "background_reads", step |-> step]
    /\ UNCHANGED <<keyspace, bg_taken, running, nbatches, creates, lastCommit, puts, reader, batcher, pager>>

\* the step in flight commits its batch on the keyspace as it is by now
BackgroundCommits ==
    /\ running
    /\ pending # Nothing
    /\ keyspace' = StaleCommit(keyspace, pending[1].before, pending[1].after)
    /\ op' = [name |-> "background_commits", step |-> pending[1].name]
    /\ pending' = Nothing
    /\ UNCHANGED <<bg_taken, running, nbatches, creates, lastCommit, puts, reader, batcher, pager>>

\* get_records_by_collections as the reader's thread runs it, read by read.
\* Each RecordIterator holds the cursor its feed iterator has come down to,
\* whether that iterator has ended, the feed row read and not yet looked up
\* in records, the item its Peekable holds, and fetched; before and nbatches
\* are history: the keyspace and the batch count when the call started
NewReader(ks, collections, limit, expand_each_collection) ==
    [collections |-> collections, limit |-> limit,
     expand_each_collection |-> expand_each_collection,
     iters |-> [i \in 1..Len(collections) |->
                   [pos |-> MaxCursor + 1, ended |-> FALSE, row |-> Nothing,
                    peeked |-> Nothing, fetched |-> 0]],
     merged |-> <<>>, before |-> ks, nbatches |-> nbatches]

\* one pass of the merge loop over what the Peekables hold: the iterator whose
\* peek has to read the store (0 if none), the latest head, and whether the
\* pass broke off at an iterator that has reached its limit
ReaderPass(r) ==
    LET n == Len(r.collections)
        F[i \in 0..n] ==
            IF i = 0 THEN [latest |-> Nothing, broke |-> FALSE, reads |-> 0]
            ELSE LET prev == F[i - 1]
                     it == r.iters[i]
                 IN IF prev.broke \/ prev.reads # 0 THEN prev
                    ELSE IF it.peeked # Nothing
                         THEN IF prev.latest = Nothing \/ it.peeked[1].cursor > prev.latest[1]
                              THEN [prev EXCEPT !.latest = <<it.peeked[1].cursor, i>>]
                              ELSE prev
                    ELSE IF it.fetched = r.limit
                         THEN IF r.expand_each_collection THEN prev
                              ELSE [prev EXCEPT !.broke = TRUE]
                    ELSE IF it.ended THEN prev
                    ELSE [prev EXCEPT !.reads = i]
    IN F[n]

\* the reader calls get_records_by_collections
ReaderOpens(collections, limit, expand_each_collection) ==
    /\ running
    /\ reader = Nothing
    /\ batcher = NewBatcher
    /\ pager = Nothing
    /\ reader' = Some(NewReader(keyspace, collections, limit, expand_each_collection))
    /\ op' = [name |-> "reader_opens"]
    /\ UNCHANGED <<keyspace, bg_taken, running, nbatches, creates, lastCommit, puts, pending, batcher, pager>>

\* db_iter.next() of the iterator being peeked: the next feed row below the
\* iterator's position.  feeds.prefix() is not taken from a snapshot: the
\* iterator shows the rows there were when the call started or the rows
\* there are now
ReaderReadsFeed ==
    /\ reader # Nothing
    /\ LET r == reader[1]
           i == ReaderPass(r).reads
       IN /\ i # 0
          /\ r.iters[i].row = Nothing
          /\ \E feeds \in {r.before.feeds, keyspace.feeds} :
                LET keys == {k \in DOMAIN feeds :
                                k[1] = r.collections[i] /\ k[2] < r.iters[i].pos}
                IN IF keys = {}
                   THEN reader' = Some([r EXCEPT !.iters[i].ended = TRUE])
                   ELSE LET m == CHOOSE x \in keys : \A y \in keys : y[2] <= x[2]
                        IN reader' = Some([r EXCEPT !.iters[i].pos = m[2],
                                                    !.iters[i].row = Some(<<m, feeds[m]>>)])
    /\ op' = [name |-> "reader_reads_feed"]
    /\ UNCHANGED <<keyspace, bg_taken, running, nbatches, creates, lastCommit, puts, pending, batcher, pager>>

\* get_record of the feed row read: self.records.get on the live partition
ReaderReadsRecord ==
    /\ reader # Nothing
    /\ LET r == reader[1]
           i == ReaderPass(r).reads
       IN /\ i # 0
          /\ r.iters[i].row # Nothing
          /\ LET row == r.iters[i].row[1]
                 rec == get_record([feeds |-> row[1] :> row[2],
                                    records |-> keyspace.records], row[1])
             IN reader' = IF rec = Nothing
                          THEN Some([r EXCEPT !.iters[i].row = Nothing])
                          ELSE Some([r EXCEPT !.iters[i].row = Nothing,
                                              !.iters[i].peeked = rec,
                                              !.iters[i].fetched = @ + 1])
    /\ op' = [name |-> "reader_reads_record"]
    /\ UNCHANGED <<keyspace, bg_taken, running, nbatches, creates, lastCommit, puts, pending, batcher, pager>>

\* the end of a pass that found a head: merged.push of the latest one
ReaderTakes ==
    /\ reader # Nothing
    /\ LET r == reader[1]
           pass == ReaderPass(r)
       IN /\ pass.reads = 0
          /\ pass.latest # Nothing
          /\ reader' = Some([r EXCEPT !.merged = Append(@, r.iters[pass.latest[2]].peeked[1]),
                                      !.iters[pass.latest[2]].peeked = Nothing])
    /\ op' = [name |-> "reader_takes"]
    /\ UNCHANGED <<keyspace, bg_taken, running, nbatches, creates, lastCommit, puts, pending, batcher, pager>>

\* the end of a pass that found no head: Ok(merged)
ReaderReturns ==
    /\ reader # Nothing
    /\ LET r == reader[1]
           pass == ReaderPass(r)
       IN /\ pass.reads = 0
          /\ pass.latest = Nothing
          /\ op' = [name |-> "get_records_by_collections", collections |-> r.collections,
                    limit |-> r.limit, expand_each_collection |-> r.expand_each_collection,
                    out |-> r.merged, before |-> r.before, nbatches |-> r.nbatches]
    /\ reader' = Nothing
    /\ UNCHANGED <<keyspace, bg_taken, running, nbatches, creates, lastCommit, puts, pending, batcher, pager>>

\* ----------------------------------------------------------- specifications
\* ingest, account deletion and roll-up: creates, updates and deletes of
\* records in one collection, creates in another, deletes of one account
RecordBatches ==
    SmallBatches({NSIDS[1]}, Commits(Cursors, DIDs, {"k1"}, Versions),
                 Removes(Cursors, {"did:a"}))
    \cup SmallBatches({NSIDS[2]}, Commits(Cursors, DIDs, {"k1"}, {<<"r1", Create("p1")>>}),
                      Removes(Cursors, {"did:a"}))

NextRecords ==
    \/ /\ nbatches < MaxBatches
       /\ \E b \in RecordBatches, io_ok \in BOOLEAN : InsertBatch(b, io_ok)
    \/ \E did \in DIDs : DeleteAccountNow(did)
    \/ StepRollup

SpecRecords == Init /\ [][NextRecords]_vars

\* ingest and roll-up: creates and updates in two collections, deletes of
\* one account, alone or in the batch of a create
RollupBatches ==
    LET counted == Commits(Cursors, DIDs, {"k1"}, {<<"r1", Create("p1")>>})
                   \cup Commits(Cursors, {"did:a"}, {"k1"}, {<<"r2", Update("p2")>>})
    IN SmallBatches(NSIDSet, counted, {})
       \cup SmallBatches({NSIDS[1]},
                         Commits(Cursors, {"did:a"}, {"k1"}, {<<"r1", Create("p1")>>}),
                         Removes(Cursors, {"did:a"}))

NextRollup ==
    \/ /\ nbatches < MaxRollupBatches
       /\ \E b \in RollupBatches : InsertBatch(b, TRUE)
    \/ StepRollup

SpecRollup == Init /\ [][NextRollup]_vars

\* ingest and roll-up of one collection with deletes of one account
DrainBatches ==
    SmallBatches({NSIDS[1]}, Commits(Cursors, {"did:a"}, {"k1"}, {<<"r1", Create("p1")>>}),
                 Removes(Cursors, {"did:a"}))

NextDrain ==
    \/ /\ nbatches < MaxRollupBatches
       /\ \E b \in DrainBatches : InsertBatch(b, TRUE)
    \/ StepRollup

\* the background task calls step_rollup on every tick of its interval
SpecDrain == Init /\ [][NextDrain]_vars /\ WF_vars(StepRollup)

\* the life of the engine: ingest, roll-up, trimming, the start of the
\* background task with and without a reroll, and restarts on the stored
\* endpoint or on another one without force_endpoint
EngineBatches ==
    SmallBatches({NSIDS[1]}, Commits(Cursors, DIDs, {"k1"}, {<<"r1", Create("p1")>>}),
                 Removes(Cursors, {"did:a"}))

NextEngine ==
    \/ /\ nbatches < MaxBatches
       /\ \E b \in EngineBatches : InsertBatch(b, TRUE)
    \/ StepRollup
    \/ \E limit \in 0..1, full_scan \in BOOLEAN : TrimCollection(NSIDS[1], limit, full_scan)
    \/ \E reroll \in BOOLEAN : BackgroundTasks(reroll)
    \/ \E endpoint \in Endpoints : Reopen(endpoint, FALSE)

SpecEngine == Init /\ [][NextEngine]_vars

\* ingest alone: batches of one or two commits of creates, updates and
\* deletes of records, committed or refused by an I/O error
IngestBatches ==
    LET one == Commits(Cursors, DIDs, {"k1"}, Versions)
               \cup Commits(Cursors, {"did:a"}, {"k2"}, {<<"r1", Create("p1")>>})
        two == Commits(Cursors, {"did:a"}, {"k1"}, Versions)
        any == Commits(Cursors, DIDs, {"k1"}, Versions)
    IN {EventBatch(<<>>, <<>>)}
       \cup {EventBatch(<<<<NSIDS[1], c>>>>, <<>>) : c \in one}
       \cup {EventBatch(<<<<NSIDS[1], c>>, <<NSIDS[1], d>>>>, <<>>) : c \in two, d \in any}
       \cup {EventBatch(<<<<NSIDS[2], c>>>>, <<>>) :
                c \in Commits(Cursors, {"did:a"}, {"k1"}, {<<"r1", Create("p1")>>})}

NextIngest ==
    /\ nbatches < MaxBatches
    /\ \E b \in IngestBatches, io_ok \in BOOLEAN : InsertBatch(b, io_ok)

SpecIngest == Init /\ [][NextIngest]_vars

\* ingest and trimming of one collection: creates, updates and deletes of
\* records of two accounts, and trims to every limit with and without a
\* full scan
TrimBatches == SmallBatches({NSIDS[1]}, Commits(Cursors, DIDs, {"k1"}, Versions), {})

NextTrim ==
    \/ /\ nbatches < MaxTrimBatches
       /\ \E b \in TrimBatches : InsertBatch(b, TRUE)
    \/ \E limit \in 0..MaxLimit, full_scan \in BOOLEAN :
          TrimCollection(NSIDS[1], limit, full_scan)

SpecTrim == Init /\ [][NextTrim]_vars

\* ingest of batches of at most one create and at most two account deletes,
\* in any order of their cursors, committed or refused by an I/O error
CursorBatches ==
    LET pairs == {<<>>} \cup {<<<<NSIDS[1], c>>>> :
                     c \in Commits(Cursors, {"did:a"}, {"k1"}, {<<"r1", Create("p1")>>})}
        removes == Removes(Cursors, {"did:b"})
        rems == {<<>>} \cup {<<r>> : r \in removes} \cup {<<r, q>> : r \in removes, q \in removes}
    IN {EventBatch(p, r) : p \in pairs, r \in rems}

NextCursor ==
    /\ nbatches < MaxBatches
    /\ \E b \in CursorBatches, io_ok \in BOOLEAN : InsertBatch(b, io_ok)

SpecCursor == Init /\ [][NextCursor]_vars

\* the two writers of main: receive_batches runs insert_batch on a blocking
\* thread while the background task, a clone of the writer, runs its steps
\* on the runtime's thread; a batch may be committed between the reads and
\* the commit of a step
RaceBatches ==
    SmallBatches({NSIDS[1]},
                 Commits(Cursors, DIDs, {"k1"}, {<<"r1", Create("p1")>>, <<"r2", Update("p2")>>}),
                 {})

NextRace ==
    \/ /\ nbatches < MaxRollupBatches
       /\ \E b \in RaceBatches : InsertBatch(b, TRUE)
    \/ BackgroundTasks(FALSE)
    \/ \E step \in {"step_rollup", "trim_collection"} : BackgroundReads(step, NSIDS[1])
    \/ BackgroundCommits

SpecRace == Init /\ [][NextRace]_vars

\* the reader beside the writer: get_records_by_collections runs on a
\* blocking thread of its own while batches of creates and updates are
\* committed and the collection is trimmed
ReaderBatches ==
    SmallBatches({NSIDS[1]},
                 Commits(Cursors, DIDs, {"k1"}, {<<"r1", Create("p1")>>, <<"r2", Update("p2")>>}),
                 {})

ReaderQueries == {<<NSIDS[1]>>, <<NSIDS[2], NSIDS[1]>>}

NextReader ==
    \/ /\ nbatches < MaxBatches
       /\ \E b \in ReaderBatches : InsertBatch(b, TRUE)
    \/ TrimCollection(NSIDS[1], TrimLimit, FALSE)
    \/ \E collections \in ReaderQueries, limit \in 1..MaxLimit, expand \in BOOLEAN :
          ReaderOpens(collections, limit, expand)
    \/ ReaderReadsFeed
    \/ ReaderReadsRecord
    \/ ReaderTakes
    \/ ReaderReturns

SpecReader == Init /\ [][NextReader]_vars

\* the start of the background task: background_tasks called any number of
\* times, with and without reroll, on a store that ingest, roll-up and
\* trimming have written
NextBackground ==
    \/ /\ nbatches < MaxBatches
       /\ \E b \in EngineBatches : InsertBatch(b, TRUE)
    \/ StepRollup
    \/ \E limit \in 0..1 : TrimCollection(NSIDS[1], limit, FALSE)
    \/ \E reroll \in BOOLEAN : BackgroundTasks(reroll)

SpecBackground == Init /\ [][NextBackground]_vars

\* FjallStorage::init on any data directory: the global partition of the
\* directory holds any of the keys init reads, and the process is started on
\* it with either endpoint, with and without force_endpoint; a started
\* process ingests a batch
Directories ==
    LET Opt(key, values) == {EmptyPartition} \cup {key :> v : v \in values}
    IN {[EmptyKeyspace EXCEPT !.global = c @@ e @@ s @@ t @@ r] :
            c \in Opt(JetstreamCursorKey, {1}),
            e \in Opt(JetstreamEndpointKey, Endpoints),
            s \in Opt(SketchSecretKey, {"secret"}),
            t \in Opt(TakeoffKey, {0}),
            r \in Opt(NewRollupCursorKey, {0})}

InitOpen ==
    /\ keyspace \in Directories
    /\ bg_taken = FALSE
    /\ running = FALSE
    /\ nbatches = 0
    /\ creates = [n \in NSIDSet |-> 0]
    /\ lastCommit = [loc \in Locations |-> NoCommit]
    /\ puts = {}
    /\ op = [name |-> "none"]
    /\ pending = Nothing
    /\ reader = Nothing
    /\ batcher = NewBatcher
    /\ pager = Nothing

OpenBatches ==
    SmallBatches({NSIDS[1]}, Commits({2}, {"did:a"}, {"k1"}, {<<"r1", Create("p1")>>}), {})

NextOpen ==
    \/ \E endpoint \in Endpoints, force_endpoint \in BOOLEAN : Reopen(endpoint, force_endpoint)
    \/ /\ nbatches < 1
       /\ \E b \in OpenBatches : InsertBatch(b, TRUE)

SpecOpen == InitOpen /\ [][NextOpen]_vars

\* the life of a data directory from its creation: the process is started
\* on the empty directory and restarted with either endpoint, with and
\* without force_endpoint; between the starts it ingests, rolls up and starts
\* its background task with and without a reroll
InitFresh ==
    /\ keyspace = EmptyKeyspace
    /\ bg_taken = FALSE
    /\ running = FALSE
    /\ nbatches = 0
    /\ creates = [n \in NSIDSet |-> 0]
    /\ lastCommit = [loc \in Locations |-> NoCommit]
    /\ puts = {}
    /\ op = [name |-> "none"]
    /\ pending = Nothing
    /\ reader = Nothing
    /\ batcher = NewBatcher
    /\ pager = Nothing

NextSecret ==
    \/ \E endpoint \in Endpoints, force_endpoint \in BOOLEAN : Reopen(endpoint, force_endpoint)
    \/ /\ nbatches < MaxBatches
       /\ \E b \in DrainBatches : InsertBatch(b, TRUE)
    \/ StepRollup
    \/ \E reroll \in BOOLEAN : BackgroundTasks(reroll)

SpecSecret == InitFresh /\ [][NextSecret]_vars

\* the hierarchical query on any set of all-time cells: every collection has
\* no cell, a cell of up to MaxCellRecords records of one or two accounts, or
\* the empty cell an update leaves
TreeCells ==
    {c \in [records : 0..MaxCellRecords, dids : SUBSET DIDs] :
        /\ Cardinality(c.dids) <= c.records
        /\ c.records > 0 => c.dids # {}}

TreeRollups ==
    LET Opt(n) == {EmptyPartition} \cup {AllTimeRollupKey(n) :> c : c \in TreeCells}
    IN {a @@ b @@ c @@ d : a \in Opt("a.a.a"), b \in Opt("a.a.a.a"),
                           c \in Opt("a.a.b"), d \in Opt("a.b.c")}

InitTops ==
    /\ keyspace \in {[init(EmptyKeyspace, "wss://one", FALSE, "secret").ks
                         EXCEPT !.rollups = r] : r \in TreeRollups}
    /\ bg_taken = FALSE
    /\ running = TRUE
    /\ nbatches = 0
    /\ creates = [n \in NSIDSet |-> 0]
    /\ lastCommit = [loc \in Locations |-> NoCommit]
    /\ puts = {}
    /\ op = [name |-> "none"]
    /\ pending = Nothing
    /\ reader = Nothing
    /\ batcher = NewBatcher
    /\ pager = Nothing

NextTops == GetTopCollections

SpecTops == InitTops /\ [][NextTops]_vars

\* ingest and a roll-up whose steps fold RollupLimit live cells: batches of
\* creates of one account in one collection or in both, the account's
\* delete alone or as the last event of a batch
FoldBatches ==
    LET c(cursor) == UFOsCommit(cursor, "did:a", "k1", "r1", Create("p1"))
        pairs == {<<>>}
                 \cup {<<<<n, c(i)>>>> : n \in NSIDSet, i \in Cursors}
                 \cup {<<<<NSIDS[1], c(i)>>, <<NSIDS[2], c(j)>>>> : i \in Cursors, j \in Cursors}
        rems == {<<>>} \cup {<<r>> : r \in Removes(Cursors, {"did:a"})}
    IN {EventBatch(p, r) : p \in pairs, r \in rems}

NextFold ==
    \/ /\ nbatches < MaxBatches
       /\ \E b \in FoldBatches : InsertBatch(b, TRUE)
    \/ StepRollupShort

SpecFold == Init /\ [][NextFold]_vars

\* the roll-up commit by commit, beside the ingest thread, with a crash and
\* restart of the process while an account delete is between its commits
NextCommitwise ==
    \/ /\ nbatches < MaxRollupBatches
       /\ \E b \in DrainBatches : InsertBatch(b, TRUE)
    \/ StepRollupFolds
    \/ RollupDeleteAccountStarts
    \/ RollupDeleteAccountCommits
    \/ /\ pending # Nothing
       /\ Reopen("wss://one", FALSE)

SpecCommitwise == Init /\ [][NextCommitwise]_vars

\* a client paging through the collections of a store with any all-time cells
NextPages == \E limit \in 1..MaxPage : GetAllCollections(limit)

SpecPages == InitTops /\ [][NextPages]_vars

\* ingest and roll-up of batches of at most one create and at most two
\* account deletes, in any order of their cursors
NextBehind ==
    \/ /\ nbatches < MaxBatches
       /\ \E b \in CursorBatches : InsertBatch(b, TRUE)
    \/ StepRollup

SpecBehind == Init /\ [][NextBehind]_vars

\* ingest of batches that have overflowed: three commits of one account in
\* one collection, handed to insert_commit_by_nsid in cursor order, of which
\* truncating_insert keeps LIMIT
EvictBatches ==
    LET any == Commits(Cursors, {"did:a"}, RKeys, Versions)
    IN {EventBatch(<<<<NSIDS[1], c1>>, <<NSIDS[1], c2>>, <<NSIDS[1], c3>>>>, <<>>) :
           <<c1, c2, c3>> \in {t \in any \X any \X any :
                                  t[1].cursor < t[2].cursor /\ t[2].cursor < t[3].cursor}}

NextEvict ==
    /\ nbatches < MaxBatches
    /\ \E b \in EvictBatches : InsertBatch(b, TRUE)

SpecEvict == Init /\ [][NextEvict]_vars

\* every writer of feeds and records: ingest of creates, updates and deletes
\* of records of two accounts and of late deletes of one account, the roll-up
\* that executes them, and trims to every limit with and without a full scan
OrphanBatches ==
    SmallBatches({NSIDS[1]}, Commits(Cursors, DIDs, {"k1"}, Versions),
                 Removes({MaxCursor}, {"did:a"}))

NextOrphans ==
    \/ /\ nbatches < MaxBatches
       /\ \E b \in OrphanBatches : InsertBatch(b, TRUE)
    \/ StepRollup
    \/ \E limit \in 0..MaxLimit, full_scan \in BOOLEAN :
          TrimCollection(NSIDS[1], limit, full_scan)

SpecOrphans == Init /\ [][NextOrphans]_vars

\* the consumer filling one CollectionCommits: creates, updates and deletes
\* of two accounts, the n-th commit handed over having cursor n
NextCommits ==
    /\ batcher.calls < MaxInserts
    /\ \E did \in DIDs, v \in Versions :
          TruncatingInsert(UFOsCommit(batcher.calls + 1, did, "k1", v[1], v[2]))

SpecCommits == Init /\ [][NextCommits]_vars

\* ------------------------------------------------------------------ claims
\* what a snapshot shows of a committed batch: the jetstream cursor, every
\* queued delete, every collection's live cell, every put's feed row, and at
\* every location the batch's last commit
BatchVisible(b, ks) ==
    /\ JetstreamCursorKey \in DOMAIN ks.global
    /\ ks.global[JetstreamCursorKey] = latest_cursor(b)
    /\ \A i \in 1..Len(b.account_removes) :
          DeleteAccountQueueKey(b.account_removes[i].cursor) \in DOMAIN ks.queues
    /\ \A n \in DOMAIN b.commits_by_nsid :
          /\ LiveCountsKey(latest_cursor(b), n) \in DOMAIN ks.rollups
          /\ ks.rollups[LiveCountsKey(latest_cursor(b), n)].records = CreatesIn(b, n)
          /\ \A i \in 1..Len(b.commits_by_nsid[n].commits) :
                LET c == b.commits_by_nsid[n].commits[i]
                IN c.action.kind = "put" => NsidRecordFeedKey(n, c.cursor) \in DOMAIN ks.feeds
    /\ \A loc \in Locations :
          LET cs == CommitsAt(b, loc)
              last == cs[Len(cs)]
          IN cs # <<>> =>
                IF last.action.kind = "cut" THEN loc \notin DOMAIN ks.records
                ELSE /\ loc \in DOMAIN ks.records
                     /\ ks.records[loc].cursor = last.cursor
                     /\ ks.records[loc].rev = last.rev

\* C1: insert_batch is all-or-nothing: a call that returns an I/O error leaves
\* feeds, records, rollups, queues and global (js_cursor) as they were, and a
\* call that returns Ok leaves every write of the batch visible together.
C1_AllOrNothing ==
    [][op'.name = "insert_batch" =>
          IF op'.ok
          THEN is_empty(op'.batch) \/ BatchVisible(op'.batch, keyspace')
          ELSE keyspace' = keyspace]_vars

\* a non-empty batch with a commit and an account delete was refused by an
\* I/O error after an earlier batch had been committed
C1_Witness ==
    /\ op.name = "insert_batch"
    /\ ~op.ok
    /\ DOMAIN op.batch.commits_by_nsid # {}
    /\ op.batch.account_removes # <<>>
    /\ JetstreamCursorKey \in DOMAIN keyspace.global
    /\ keyspace.global[JetstreamCursorKey] # latest_cursor(op.batch)

RowsOf(ks, did) == {k \in DOMAIN ks.records : k[1] = did}

\* C2: once step_rollup has executed a queued delete for an account, or
\* delete_account was called for it, no records row is keyed by that account,
\* whatever cursor its commit had; the rows of other accounts are as before,
\* and delete_account returns the number of rows it removed.
C2_AccountDeleted ==
    [][(op'.name = "delete_account" \/ (op'.name = "step_rollup" /\ op'.kind = "delete")) =>
          /\ RowsOf(keyspace', op'.did) = {}
          /\ DOMAIN keyspace'.records = DOMAIN keyspace.records \ RowsOf(keyspace, op'.did)
          /\ \A k \in DOMAIN keyspace'.records : keyspace'.records[k] = keyspace.records[k]
          /\ op'.name = "delete_account" => op'.n = Cardinality(RowsOf(keyspace, op'.did))]_vars

\* step_rollup has executed a queued delete of an account whose last commit
\* at a location was a put with a cursor past the delete's, and the row is
\* gone while a record of another account stays
C2_Witness ==
    /\ op.name = "step_rollup"
    /\ op.kind = "delete"
    /\ \E n \in NSIDSet :
          /\ lastCommit[<<op.did, n, "k1">>].action.kind = "put"
          /\ lastCommit[<<op.did, n, "k1">>].cursor > op.cursor
    /\ RowsOf(keyspace, op.did) = {}
    /\ \E k \in DOMAIN keyspace.records : k[1] # op.did

LiveKeys(ks) == {k \in DOMAIN ks.rollups : k[1] = "live_counts"}

RollupCursor(ks) == ks.global[NewRollupCursorKey]

DeleteExecuted == op'.name = "step_rollup" /\ op'.kind = "delete"

\* C3 as stated: when step_rollup executes a queued delete D, no live cell
\* with a cursor below D's is still unfolded.
C3_NoLiveCellBelowDelete ==
    [][DeleteExecuted => \A k \in LiveKeys(keyspace) : k[2] >= op'.cursor]_vars

\* C3: when step_rollup executes a queued delete D, no live cell with a
\* cursor between the roll-up cursor and D's cursor is still unfolded.
C3_FoldedBeforeDelete ==
    [][DeleteExecuted =>
          \A k \in LiveKeys(keyspace) :
              ~(RollupCursor(keyspace) < k[2] /\ k[2] < op'.cursor)]_vars

\* step_rollup has executed a queued delete after a cell with an earlier
\* cursor was folded into its hour bucket, and a later live cell still waits
C3_Witness ==
    /\ op.name = "step_rollup"
    /\ op.kind = "delete"
    /\ \E k \in DOMAIN keyspace.rollups :
          k[1] = "hourly_counts" /\ k[2] + HourLen <= op.cursor
    /\ \E k \in LiveKeys(keyspace) : k[2] > op.cursor

NothingAhead(ks) ==
    /\ range_from_cursor(ks.rollups, RollupCursor(ks)) = {}
    /\ queue_range_to_prefix_end(ks.queues, RollupCursor(ks)) = {}

ReturnedZero == op.name = "step_rollup" /\ op.n = 0

\* C4 as stated: with step_rollup called again and again, every queued delete
\* is eventually executed and removed, so that the queue ends up empty, and
\* step_rollup returns 0 only when no queued delete remains.
C4_QueueDrained ==
    /\ <>[](DOMAIN keyspace.queues = {})
    /\ [](ReturnedZero => DOMAIN keyspace.queues = {})

\* C4: with step_rollup called again and again, eventually no queued delete
\* and no live cell ahead of the roll-up cursor remains, and step_rollup
\* returns 0 only when none remains; a queued delete the roll-up cursor has
\* passed stays in the queue.
C4_AheadDrained ==
    /\ <>[]NothingAhead(keyspace)
    /\ [](ReturnedZero => NothingAhead(keyspace))
    /\ [][\A k \in DOMAIN keyspace.queues :
             k[1] < RollupCursor(keyspace) => k \in DOMAIN keyspace'.queues]_vars

\* step_rollup has returned 0 after executing what was ahead of the roll-up
\* cursor, while a queued delete behind the cursor remains
C4_Witness ==
    /\ ReturnedZero
    /\ RollupCursor(keyspace) > 0
    /\ DOMAIN keyspace.queues # {}
    /\ NothingAhead(keyspace)

\* C5: counts_by_collection of every collection is the same before and after
\* every step_rollup.
C5_CountsUnchangedByRollup ==
    [][op'.name = "step_rollup" =>
          \A n \in NSIDSet :
              get_counts_by_collection(keyspace', n) = get_counts_by_collection(keyspace, n)]_vars

CellKeys(ks) ==
    {k \in DOMAIN ks.rollups : k[1] \in {"hourly_counts", "weekly_counts", "ever_counts"}}

\* the rank rows of an aggregate cell's current values
RecordsRankOf(ks, k) ==
    IF k[1] = "hourly_counts" THEN HourlyRecordsKey(k[2], ks.rollups[k].records, k[3])
    ELSE IF k[1] = "weekly_counts" THEN WeeklyRecordsKey(k[2], ks.rollups[k].records, k[3])
    ELSE AllTimeRecordsKey(ks.rollups[k].records, k[2])

DidsRankOf(ks, k) ==
    IF k[1] = "hourly_counts" THEN HourlyDidsKey(k[2], estimate(ks.rollups[k].dids), k[3])
    ELSE IF k[1] = "weekly_counts"
         THEN WeeklyDidsKey(k[2], estimate(ks.rollups[k].dids), k[3])
    ELSE AllTimeDidsKey(estimate(ks.rollups[k].dids), k[2])

\* C6: every hourly, weekly and all-time aggregate cell has its rank-records
\* row and its rank-dids row, also a cell created with an estimate of 0.
C6_RankRowsExist ==
    \A k \in CellKeys(keyspace) :
        /\ RecordsRankOf(keyspace, k) \in DOMAIN keyspace.rollups
        /\ DidsRankOf(keyspace, k) \in DOMAIN keyspace.rollups

RankKeys(ks) ==
    {k \in DOMAIN ks.rollups :
        k[1] \in {"hourly_rank_records", "hourly_rank_dids", "weekly_rank_records",
                  "weekly_rank_dids", "ever_rank_records", "ever_rank_dids"}}

\* the aggregate cell a rank row stands for, the row's metric and its NSID
CellOfRank(k) ==
    IF k[1] \in {"hourly_rank_records", "hourly_rank_dids"} THEN HourlyRollupKey(k[2], k[4])
    ELSE IF k[1] \in {"weekly_rank_records", "weekly_rank_dids"}
         THEN WeeklyRollupKey(k[2], k[4])
    ELSE AllTimeRollupKey(k[3])

RankMetric(k) == IF k[1] \in {"ever_rank_records", "ever_rank_dids"} THEN k[2] ELSE k[3]

RankBucket(k) ==
    IF k[1] \in {"ever_rank_records", "ever_rank_dids"} THEN <<k[1], 0, k[3]>>
    ELSE <<k[1], k[2], k[4]>>

\* C7: every rank-records and rank-dids row has its aggregate cell in the same
\* bucket, with records (estimate) equal to the row's metric; a bucket holds
\* at most one row of a family for an NSID; and the expect and assert_eq of
\* top_collections_by_count and top_collections_by_dids do not fail on any
\* snapshot.
C7_NoStaleRankRows ==
    /\ \A k \in RankKeys(keyspace) :
          /\ CellOfRank(k) \in DOMAIN keyspace.rollups
          /\ RankMetric(k) =
                IF k[1] \in {"hourly_rank_records", "weekly_rank_records", "ever_rank_records"}
                THEN keyspace.rollups[CellOfRank(k)].records
                ELSE estimate(keyspace.rollups[CellOfRank(k)].dids)
    /\ \A k1, k2 \in RankKeys(keyspace) : RankBucket(k1) = RankBucket(k2) => k1 = k2
    /\ \A limit \in 0..MaxLimit :
          /\ ~get_top_collections_by_count(keyspace, limit).panicked
          /\ ~get_top_collections_by_dids(keyspace, limit).panicked

\* a roll-up step has merged into an all-time cell that was there already,
\* moving its rank rows, and both queries list two collections
C7_Witness ==
    /\ op.name = "step_rollup"
    /\ op.kind = "fold"
    /\ \E n \in NSIDSet :
          /\ AllTimeRollupKey(n) \in DOMAIN keyspace.rollups
          /\ keyspace.rollups[AllTimeRollupKey(n)].records = 2
          /\ estimate(keyspace.rollups[AllTimeRollupKey(n)].dids) = 2
    /\ Len(get_top_collections_by_count(keyspace, MaxLimit).out) = 2
    /\ Len(get_top_collections_by_dids(keyspace, MaxLimit).out) = 2

\* C8 as stated: over insert_batch, step_rollup, trim_collection, re-open and
\* background_tasks, every new value of rollup_cursor is at least the old one.
C8_CursorNeverDecreases ==
    [][RollupCursor(keyspace') >= RollupCursor(keyspace)]_vars

Rerolled == op'.name = "background_tasks" /\ op'.ok /\ op'.reroll

\* C8: rollup_cursor never decreases over insert_batch, step_rollup,
\* trim_collection, re-open and background_tasks without reroll;
\* background_tasks with reroll sets it back to the start.
C8_CursorDecreasesOnlyByReroll ==
    [][IF Rerolled THEN RollupCursor(keyspace') = 0
       ELSE RollupCursor(keyspace') >= RollupCursor(keyspace)]_vars

\* the background task was started with reroll after the roll-up had folded
\* a cell, and the roll-up cursor is back at the start
C8_Witness ==
    /\ op.name = "background_tasks"
    /\ op.ok
    /\ op.reroll
    /\ RollupCursor(keyspace) = 0
    /\ \E n \in NSIDSet : AllTimeRollupKey(n) \in DOMAIN keyspace.rollups

Query(n, limit) == get_records_by_collections(keyspace, <<n>>, limit, FALSE)

\* the locations of a collection whose most recent commit was a put
LivePuts(n) == {loc \in Locations : loc[2] = n /\ lastCommit[loc].action.kind = "put"}

Matches(rec, loc) ==
    /\ rec.did = loc[1]
    /\ rec.collection = loc[2]
    /\ rec.rkey = loc[3]
    /\ rec.cursor = lastCommit[loc].cursor
    /\ rec.rev = lastCommit[loc].rev
    /\ rec.record = lastCommit[loc].action.record
    /\ rec.is_update = lastCommit[loc].action.is_update

\* C9 as stated: records_by_collections([N], limit) holds exactly one record
\* for every location of N whose most recent commit was a put, carrying that
\* put's cursor, rev, payload and is_update, and none for a location whose
\* most recent commit was a cut.
C9_LatestVersionWins ==
    \A n \in NSIDSet, limit \in 1..MaxLimit :
        \A loc \in {l \in Locations : l[2] = n} :
            LET out == Query(n, limit)
                at == {i \in 1..Len(out) : out[i].did = loc[1] /\ out[i].rkey = loc[3]}
            IN IF loc \in LivePuts(n)
               THEN Cardinality(at) = 1 /\ \A i \in at : Matches(out[i], loc)
               ELSE at = {}

\* no two puts of the collection, at different locations, had the same cursor
DistinctCursors(n) ==
    \A p, q \in puts : (p[1] = n /\ q[1] = n /\ p[2] = q[2]) => p = q

\* C9: when no two puts of N at different locations had the same cursor,
\* records_by_collections([N], limit) holds the latest puts of the locations
\* of N whose most recent commit was a put, newest first and one per
\* location, down to the limit, each with that put's cursor, rev, payload and
\* is_update, and no record of a location whose most recent commit was a cut.
C9_LatestOfDistinctCursors ==
    \A n \in NSIDSet, limit \in 1..MaxLimit :
        DistinctCursors(n) =>
            LET out == Query(n, limit)
                live == LivePuts(n)
            IN /\ Len(out) = Min(limit, Cardinality(live))
               /\ \A i \in 1..Len(out) : \E loc \in live : Matches(out[i], loc)
               /\ \A i, j \in 1..Len(out) : i < j => out[i].cursor > out[j].cursor
               /\ \A loc \in live :
                     \/ \E i \in 1..Len(out) : Matches(out[i], loc)
                     \/ Len(out) = limit /\ lastCommit[loc].cursor < out[limit].cursor

\* a record was created and then updated, another was created and then
\* deleted, and the query returns the update alone
C9_Witness ==
    /\ DistinctCursors(NSIDS[1])
    /\ \E loc \in LivePuts(NSIDS[1]), gone \in Locations :
          /\ lastCommit[loc].action.is_update
          /\ \E k \in DOMAIN keyspace.feeds :
                /\ k[1] = NSIDS[1]
                /\ k[2] < lastCommit[loc].cursor
                /\ keyspace.feeds[k].did = loc[1]
          /\ lastCommit[gone].rev = "r3"
          /\ \E k \in DOMAIN keyspace.feeds :
                k[1] = NSIDS[1] /\ keyspace.feeds[k].did = gone[1]
          /\ Len(Query(NSIDS[1], MaxLimit)) = 1
          /\ Matches(Query(NSIDS[1], MaxLimit)[1], loc)

\* C10 as stated: the records value of counts_by_collection(N) is the number
\* of create commits ingested for N.
C10_CountsCountCreates ==
    \A n \in NSIDSet : get_counts_by_collection(keyspace, n)[1] = creates[n]

\* a collection nothing was ever written to
Absent == "a.a.c"

\* the lists of distinct collections a query may name
CollectionLists ==
    {<<NSIDS[1]>>, <<NSIDS[2]>>, <<NSIDS[1], NSIDS[2]>>, <<NSIDS[2], NSIDS[1]>>,
     <<Absent, NSIDS[2], NSIDS[1]>>, <<NSIDS[1], Absent, NSIDS[2]>>}

ListSet(collections) == {collections[i] : i \in 1..Len(collections)}

\* the locations of the listed collections whose most recent commit was a put
LiveIn(collections) == UNION {LivePuts(n) : n \in ListSet(collections) \cap NSIDSet}

\* C11 as stated: without expand, records_by_collections(collections, limit)
\* returns at most limit records, and they are the limit newest live records
\* of the listed collections, whatever the order of the list (puts of one
\* collection having distinct cursors).
C11_LimitNewestOverall ==
    \A collections \in CollectionLists, limit \in 1..MaxLimit :
        (\A n \in ListSet(collections) : DistinctCursors(n)) =>
            LET out == get_records_by_collections(keyspace, collections, limit, FALSE)
                live == LiveIn(collections)
            IN /\ Len(out) = Min(limit, Cardinality(live))
               /\ \A i \in 1..Len(out) : \E loc \in live : Matches(out[i], loc)
               /\ \A loc \in live :
                     \/ \E i \in 1..Len(out) : Matches(out[i], loc)
                     \/ \A i \in 1..Len(out) : lastCommit[loc].cursor <= out[i].cursor

\* C12 as stated: over several collections the records come merged in
\* strictly descending cursor order.
C12_StrictlyDescending ==
    \A collections \in CollectionLists, limit \in 1..MaxLimit, expand \in BOOLEAN :
        LET out == get_records_by_collections(keyspace, collections, limit, expand)
        IN \A i, j \in 1..Len(out) : i < j => out[i].cursor > out[j].cursor

\* no two puts, of one location or of two, had the same cursor
DistinctCursorsOverall == \A p, q \in puts : p[2] = q[2] => p = q

\* the listed collections that have a live record in the store
WithRecords(ks, collections) ==
    SelectSeq(collections, LAMBDA n : RecordIterator(ks, n) # <<>>)

\* C12: over several collections the records come merged in descending
\* cursor order, strictly when no two puts had the same cursor; the first is
\* the newest live record of any listed collection (puts of one collection
\* having distinct cursors); and a listed collection with no records
\* contributes nothing: the result is that of the list without it.
C12_MergedNewestFirst ==
    \A collections \in CollectionLists, limit \in 1..MaxLimit, expand \in BOOLEAN :
        LET out == get_records_by_collections(keyspace, collections, limit, expand)
            live == LiveIn(collections)
        IN /\ \A i, j \in 1..Len(out) : i < j => out[i].cursor >= out[j].cursor
           /\ DistinctCursorsOverall =>
                 \A i, j \in 1..Len(out) : i < j => out[i].cursor > out[j].cursor
           /\ ((\A n \in NSIDSet : DistinctCursors(n)) /\ live # {}) =>
                 /\ Len(out) >= 1
                 /\ \E loc \in live : Matches(out[1], loc)
                 /\ \A loc \in live : lastCommit[loc].cursor <= out[1].cursor
           /\ out = get_records_by_collections(keyspace, WithRecords(keyspace, collections),
                                               limit, expand)

\* two collections hold a live record each, a third listed between them holds
\* none, and the query returns the newer record of the later-listed
\* collection first
C12_Witness ==
    LET out == get_records_by_collections(keyspace, <<NSIDS[1], Absent, NSIDS[2]>>,
                                          MaxLimit, TRUE)
    IN /\ DistinctCursorsOverall
       /\ Len(out) = 2
       /\ out[1].collection = NSIDS[2]
       /\ out[2].collection = NSIDS[1]
       /\ out[1].cursor > out[2].cursor

\* the records of a result that belong to one collection, in result order
OfCollection(out, n) == SelectSeq(out, LAMBDA rec : rec.collection = n)

\* a result holds exactly the min(limit, live count) newest live records of
\* the collection
NewestOf(out, n, limit) ==
    LET got == OfCollection(out, n)
        live == IF n \in NSIDSet THEN LivePuts(n) ELSE {}
    IN /\ Len(got) = Min(limit, Cardinality(live))
       /\ \A i \in 1..Len(got) : \E loc \in live : Matches(got[i], loc)
       /\ \A loc \in live :
             \/ \E i \in 1..Len(got) : Matches(got[i], loc)
             \/ \A i \in 1..Len(got) : lastCommit[loc].cursor < got[i].cursor

\* C13 as stated: with expand, records_by_collections returns for every
\* listed collection exactly its min(limit, live count) newest live records,
\* merged in descending cursor order.
C13_ExpandPerCollection ==
    \A collections \in CollectionLists, limit \in 1..MaxLimit :
        LET out == get_records_by_collections(keyspace, collections, limit, TRUE)
        IN /\ \A n \in ListSet(collections) : NewestOf(out, n, limit)
           /\ \A i, j \in 1..Len(out) : i < j => out[i].cursor >= out[j].cursor

\* C13: the same, for every listed collection whose puts at different
\* locations had distinct cursors.
C13_ExpandPerDistinctCollection ==
    \A collections \in CollectionLists, limit \in 1..MaxLimit :
        LET out == get_records_by_collections(keyspace, collections, limit, TRUE)
        IN /\ \A n \in ListSet(collections) : DistinctCursors(n) => NewestOf(out, n, limit)
           /\ \A i, j \in 1..Len(out) : i < j => out[i].cursor >= out[j].cursor

\* one collection holds two live records and another one, and with expand and
\* limit 1 the query returns the newest of each: two records, more than the
\* limit, without the older record of the first collection
C13_Witness ==
    LET out == get_records_by_collections(keyspace, <<NSIDS[1], NSIDS[2]>>, 1, TRUE)
    IN /\ \A n \in NSIDSet : DistinctCursors(n)
       /\ Cardinality(LivePuts(NSIDS[1])) = 2
       /\ Cardinality(LivePuts(NSIDS[2])) = 1
       /\ Len(out) = 2
       /\ Len(OfCollection(out, NSIDS[1])) = 1
       /\ Len(OfCollection(out, NSIDS[2])) = 1

\* the record rows of a collection: its live records
Rows(ks, n) == {loc \in DOMAIN ks.records : loc[2] = n}

\* every live record of the collection is the one its feed row points at
Visible(ks, n) ==
    \A loc \in Rows(ks, n) :
        /\ NsidRecordFeedKey(n, ks.records[loc].cursor) \in DOMAIN ks.feeds
        /\ LET feed_val == ks.feeds[NsidRecordFeedKey(n, ks.records[loc].cursor)]
           IN feed_val.did = loc[1] /\ feed_val.rkey = loc[3]

\* the stored trim cursor of a collection, the start when there is none
TrimCursor(ks, n) ==
    IF TrimCollectionCursorKey(n) \in DOMAIN ks.global
    THEN ks.global[TrimCollectionCursorKey(n)] ELSE 0

\* every live record of the collection lies above its trim cursor
AboveTrimCursor(ks, n) ==
    \A loc \in Rows(ks, n) : ks.records[loc].cursor > TrimCursor(ks, n)

\* live records, newest first
RECURSIVE NewestRows(_, _)
NewestRows(ks, S) ==
    IF S = {} THEN <<>>
    ELSE LET m == CHOOSE x \in S : \A y \in S : ks.records[y].cursor <= ks.records[x].cursor
         IN <<m>> \o NewestRows(ks, S \ {m})

RecordAt(ks, loc) ==
    [collection |-> loc[2], cursor |-> ks.records[loc].cursor, did |-> loc[1],
     rkey |-> loc[3], rev |-> ks.records[loc].rev, record |-> ks.records[loc].record,
     is_update |-> ks.records[loc].is_update]

\* what trim_collection(n, limit, full_scan) leaves of the state ks in ks2:
\* the min(limit, live count) newest live records are what every query with
\* at least that limit returns; every older live record has lost its feed row
\* and its record row; the counts returned are the feed rows removed without
\* a record and the records removed
Retained(ks, ks2, n, limit, dangling, records_deleted) ==
    LET all == NewestRows(ks, Rows(ks, n))
        keep == SubSeq(all, 1, Min(limit, Len(all)))
    IN /\ \A l \in limit..MaxLimit + 1 :
             get_records_by_collections(ks2, <<n>>, l, FALSE)
                = [i \in 1..Len(keep) |-> RecordAt(ks, keep[i])]
       /\ \A i \in Len(keep) + 1..Len(all) :
             /\ all[i] \notin DOMAIN ks2.records
             /\ NsidRecordFeedKey(n, ks.records[all[i]].cursor) \notin DOMAIN ks2.feeds
       /\ records_deleted = Len(all) - Len(keep)
       /\ dangling = Cardinality({k \in DOMAIN ks.feeds : k[1] = n}
                                 \ {k \in DOMAIN ks2.feeds : k[1] = n}) - records_deleted

\* C14 as stated: after trim_collection(N, L, full_scan), records_by_collections
\* ([N], limit >= L) returns exactly the min(L, live count) newest live records
\* of N, every older live record of N has lost its feed row and its record
\* row, and the call returns (dangling feed rows removed, records deleted).
C14_TrimRetains ==
    [][op'.name = "trim_collection" =>
          Retained(keyspace, keyspace', op'.collection, op'.limit,
                   op'.dangling, op'.records_deleted)]_vars

\* C14: the same, for a trim of a collection whose every live record is the
\* one its feed row points at and, without full_scan, has every live record
\* above the stored trim cursor.
C14_TrimRetainsVisible ==
    [][(/\ op'.name = "trim_collection"
        /\ Visible(keyspace, op'.collection)
        /\ op'.full_scan \/ AboveTrimCursor(keyspace, op'.collection))
        => Retained(keyspace, keyspace', op'.collection, op'.limit,
                    op'.dangling, op'.records_deleted)]_vars

\* a trim to one record removed a surplus record and a dangling feed row, and
\* one live record is left
C14_Witness ==
    /\ op.name = "trim_collection"
    /\ op.limit = 1
    /\ op.records_deleted >= 1
    /\ op.dangling >= 1
    /\ Cardinality(Rows(keyspace, NSIDS[1])) = 1
    /\ Len(get_records_by_collections(keyspace, <<NSIDS[1]>>, MaxLimit, FALSE)) = 1

\* the feed rows of a collection that name a record now stored with a later
\* cursor, each with the location of that record
StaleFeeds(ks, n) ==
    {<<k, loc>> \in (DOMAIN ks.feeds) \X Rows(ks, n) :
        /\ k[1] = n
        /\ ks.feeds[k].did = loc[1]
        /\ ks.feeds[k].rkey = loc[3]
        /\ k[2] < ks.records[loc].cursor}

\* C15 as stated: a trim_collection pass over a collection removes every
\* stale feed row of it and neither removes nor modifies the record row the
\* feed row names.
C15_StaleFeedRemoved ==
    [][op'.name = "trim_collection" =>
          \A s \in StaleFeeds(keyspace, op'.collection) :
              /\ s[1] \notin DOMAIN keyspace'.feeds
              /\ s[2] \in DOMAIN keyspace'.records
              /\ keyspace'.records[s[2]] = keyspace.records[s[2]]]_vars

\* the other live records of the collection that are as new as the one at loc
AsNew(ks, loc) ==
    {o \in Rows(ks, loc[2]) \ {loc} : ks.records[o].cursor >= ks.records[loc].cursor}

\* C15: a trim_collection pass over a collection removes every stale feed row
\* of it that lies above the stored trim cursor, and every one with
\* full_scan; it never modifies the record row the feed row names, and it
\* leaves that row in place when fewer than limit other live records of the
\* collection are as new.
C15_StaleFeedRemovedRecordKept ==
    [][op'.name = "trim_collection" =>
          \A s \in StaleFeeds(keyspace, op'.collection) :
              /\ (op'.full_scan \/ s[1][2] > TrimCursor(keyspace, op'.collection))
                    => s[1] \notin DOMAIN keyspace'.feeds
              /\ s[2] \in DOMAIN keyspace'.records
                    => keyspace'.records[s[2]] = keyspace.records[s[2]]
              /\ Cardinality(AsNew(keyspace, s[2])) < op'.limit
                    => s[2] \in DOMAIN keyspace'.records]_vars

\* a record was put twice, the trim removed the feed row of the first put and
\* no record, and the record is stored with the cursor of the second put
C15_Witness ==
    /\ op.name = "trim_collection"
    /\ op.dangling = 1
    /\ op.records_deleted = 0
    /\ \E loc \in Rows(keyspace, NSIDS[1]), p \in puts :
          /\ p[1] = loc[2] /\ p[3] = loc[1] /\ p[4] = loc[3]
          /\ p[2] < keyspace.records[loc].cursor
          /\ NsidRecordFeedKey(loc[2], p[2]) \notin DOMAIN keyspace.feeds
          /\ \A q \in puts : q[3] = loc[1]
          /\ lastCommit[loc].cursor = keyspace.records[loc].cursor

FeedsOf(ks, n) == {k \in DOMAIN ks.feeds : k[1] = n}

BelowFeeds(ks, n) == \A k \in FeedsOf(ks, n) : TrimCursor(ks, n) < k[2]

\* the puts of a batch in a collection all have cursors above its trim cursor
PutsAbove(ks, b, n) == \A p \in PutsIn(b) : p[1] = n => p[2] > TrimCursor(ks, n)

\* the cursors of the records a step removed from a collection
RemovedCursors(ks, ks2, n) ==
    {ks.records[loc].cursor : loc \in Rows(ks, n) \ Rows(ks2, n)}

RECURSIVE SumRecords(_, _)
SumRecords(ks, S) ==
    IF S = {} THEN 0
    ELSE LET k == CHOOSE x \in S : TRUE
         IN ks.rollups[k].records + SumRecords(ks, S \ {k})

HourlyCells(ks, n) == {k \in DOMAIN ks.rollups : k[1] = "hourly_counts" /\ k[3] = n}

WeeklyCells(ks, n) == {k \in DOMAIN ks.rollups : k[1] = "weekly_counts" /\ k[3] = n}

EverRecords(ks, n) ==
    IF AllTimeRollupKey(n) \in DOMAIN ks.rollups
    THEN ks.rollups[AllTimeRollupKey(n)].records ELSE 0

\* C17: for a collection with no live cell left, the records of its hourly
\* cells and the records of its weekly cells each sum to the records of its
\* all-time cell.
C17_BucketSumsAgree ==
    \A n \in NSIDSet :
        {k \in LiveKeys(keyspace) : k[3] = n} = {} =>
            /\ SumRecords(keyspace, HourlyCells(keyspace, n)) = EverRecords(keyspace, n)
            /\ SumRecords(keyspace, WeeklyCells(keyspace, n)) = EverRecords(keyspace, n)

\* a collection has no live cell left, two hourly cells, one weekly cell and
\* an all-time cell of two records or more
C17_Witness ==
    /\ {k \in LiveKeys(keyspace) : k[3] = NSIDS[1]} = {}
    /\ Cardinality(HourlyCells(keyspace, NSIDS[1])) = 2
    /\ Cardinality(WeeklyCells(keyspace, NSIDS[1])) = 1
    /\ EverRecords(keyspace, NSIDS[1]) >= 2

JsCursor(ks) ==
    IF JetstreamCursorKey \in DOMAIN ks.global THEN ks.global[JetstreamCursorKey] ELSE 0

\* the cursors of the commits and of the account deletes of a batch
CursorsIn(b) ==
    {c.cursor : c \in AllCommits(b)}
    \cup {b.account_removes[i].cursor : i \in 1..Len(b.account_removes)}

\* the last account delete of the batch has the greatest cursor of them
LastRemoveLatest(b) ==
    \A i \in 1..Len(b.account_removes) :
        b.account_removes[i].cursor <= b.account_removes[Len(b.account_removes)].cursor

Committed(o) == o.name = "insert_batch" /\ o.ok /\ ~is_empty(o.batch)

LaterRows(ks, did, cursor) == {loc \in RowsOf(ks, did) : ks.records[loc].cursor > cursor}

\* the query over a collection with a limit that leaves nothing out
QueryAll(ks, n) == get_records_by_collections(ks, <<n>>, Cardinality(Locations), FALSE)

Returned(out, loc) == \E i \in 1..Len(out) : out[i].did = loc[1] /\ out[i].rkey = loc[3]

\* C19 as stated: after step_rollup has executed a queued delete of an
\* account, records_by_collections still returns every record of the account
\* that was created with a cursor greater than the delete's.
C19_LaterRecordsSurvive ==
    [][(op'.name = "step_rollup" /\ op'.kind = "delete") =>
          \A loc \in LaterRows(keyspace, op'.did, op'.cursor) :
              Returned(QueryAll(keyspace', loc[2]), loc)]_vars

\* C19: after step_rollup has executed a queued delete of an account,
\* records_by_collections returns no record of the account, not even one
\* created with a cursor greater than the delete's and stored before the
\* step; the store has no row for it either.
C19_LaterRecordsDeleted ==
    [][(op'.name = "step_rollup" /\ op'.kind = "delete") =>
          /\ \A loc \in LaterRows(keyspace, op'.did, op'.cursor) :
                /\ ~Returned(QueryAll(keyspace', loc[2]), loc)
                /\ loc \notin DOMAIN keyspace'.records
          /\ \A n \in NSIDSet :
                \A i \in 1..Len(QueryAll(keyspace', n)) :
                    QueryAll(keyspace', n)[i].did # op'.did]_vars

\* step_rollup has executed a queued delete of an account that had created a
\* record with a greater cursor, the query no longer returns that record,
\* and it still returns the record of another account
C19_Witness ==
    /\ op.name = "step_rollup"
    /\ op.kind = "delete"
    /\ lastCommit[<<op.did, NSIDS[1], "k1">>].action.kind = "put"
    /\ ~lastCommit[<<op.did, NSIDS[1], "k1">>].action.is_update
    /\ lastCommit[<<op.did, NSIDS[1], "k1">>].cursor > op.cursor
    /\ ~Returned(QueryAll(keyspace, NSIDS[1]), <<op.did, NSIDS[1], "k1">>)
    /\ Len(QueryAll(keyspace, NSIDS[1])) = 1

\* C20 as stated: no step of the background task commits mutations computed
\* from a read of the store that a batch commit has changed since.
C20_MaintenanceSerialized ==
    [][op'.name = "background_commits" => keyspace = pending[1].before]_vars

\* the live record at a location, if there is one
LiveAt(ks, loc) ==
    IF loc \in DOMAIN ks.records THEN Some(ks.records[loc]) ELSE Nothing

\* C21: a get_records_by_collections call that ran beside the commits of the
\* writer never omits a location of a collection it was asked for that held
\* a live record when the call started and holds one when it returns, one
\* batch, an update of that location at a later cursor, having been committed
\* meanwhile (the limit being large enough for every location)
C21_ReaderNeverOmitsUpdated ==
    [][op'.name = "get_records_by_collections" =>
         \A loc \in Locations :
            (/\ \E i \in 1..Len(op'.collections) : op'.collections[i] = loc[2]
             /\ op'.limit >= Cardinality(DOMAIN keyspace.records)
             /\ op'.limit >= Cardinality(DOMAIN op'.before.records)
             /\ LiveAt(op'.before, loc) # Nothing
             /\ LiveAt(keyspace, loc) # Nothing
             /\ nbatches = op'.nbatches + 1
             /\ lastCommit[loc].action = Update("p2")
             /\ LiveAt(keyspace, loc)[1].cursor = lastCommit[loc].cursor
             /\ LiveAt(op'.before, loc)[1].cursor < LiveAt(keyspace, loc)[1].cursor)
            => \E j \in 1..Len(op'.out) :
                  /\ op'.out[j].collection = loc[2]
                  /\ op'.out[j].did = loc[1]
                  /\ op'.out[j].rkey = loc[3]]_vars

C23_EmptyBatchChangesNothing ==
    [][(op'.name = "insert_batch" /\ is_empty(op'.batch)) =>
          /\ op'.ok
          /\ keyspace' = keyspace]_vars

\* an empty batch was handed to insert_batch on a store that holds a record
\* and a jetstream cursor
C23_Witness ==
    /\ op.name = "insert_batch"
    /\ is_empty(op.batch)
    /\ JetstreamCursorKey \in DOMAIN keyspace.global
    /\ keyspace.records # EmptyPartition
    /\ nbatches > 0

\* the keys of the global partition that init reads
Stored(ks, key) == IF key \in DOMAIN ks.global THEN Some(ks.global[key]) ELSE Nothing

\* C24: init on a keyspace that holds a js_cursor returns InitError and
\* leaves the keyspace as it is when js_endpoint or sketch_secret is
\* missing, and when the stored endpoint differs from the provided one and
\* force_endpoint is false; when they differ and force_endpoint is true it
\* returns Ok and the stored endpoint becomes the provided one, nothing else
\* being changed
C24_EndpointMismatchPolicy ==
    [][(op'.name = "init" /\ Stored(keyspace, JetstreamCursorKey) # Nothing) =>
          IF \/ Stored(keyspace, JetstreamEndpointKey) = Nothing
             \/ Stored(keyspace, SketchSecretKey) = Nothing
          THEN ~op'.ok /\ keyspace' = keyspace
          ELSE IF keyspace.global[JetstreamEndpointKey] = op'.endpoint
          THEN op'.ok /\ keyspace' = keyspace
          ELSE IF op'.force_endpoint
          THEN /\ op'.ok
               /\ keyspace' = [keyspace EXCEPT !.global[JetstreamEndpointKey] = op'.endpoint]
          ELSE ~op'.ok /\ keyspace' = keyspace]_vars

\* init has replaced the stored endpoint of a store that ingest had written
C24_Witness ==
    /\ op.name = "init"
    /\ op.ok
    /\ op.force_endpoint
    /\ op.endpoint = "wss://two"
    /\ keyspace.global[JetstreamEndpointKey] = "wss://two"
    /\ nbatches = 1
    /\ keyspace.global[JetstreamCursorKey] = 2

\* C25: the sketch_secret key is written by the init that finds the
\* directory without one and by nothing else, it is never changed or removed
\* afterwards, and every init that returns Ok returns the stored secret:
\* the one the first init wrote, whatever batches, roll-up steps, rerolls
\* and forced endpoint changes came in between
C25_SecretWrittenOnce ==
    [][/\ Stored(keyspace, SketchSecretKey) # Nothing =>
             Stored(keyspace', SketchSecretKey) = Stored(keyspace, SketchSecretKey)
       /\ Stored(keyspace', SketchSecretKey) # Stored(keyspace, SketchSecretKey) =>
             op'.name = "init"
       /\ (op'.name = "init" /\ op'.ok) =>
             Stored(keyspace', SketchSecretKey) = Some(op'.sketch_secret)]_vars

\* a restart with force_endpoint, after ingest and roll-up, has returned the
\* secret the first init drew
C25_Witness ==
    /\ op.name = "init"
    /\ op.ok
    /\ op.force_endpoint
    /\ op.sketch_secret = "secret2"
    /\ keyspace.global[JetstreamEndpointKey] = op.endpoint
    /\ nbatches = MaxBatches
    /\ RollupCursor(keyspace) > 0

\* the collections that have an all-time cell, and the records of the cell
EverCells(ks) == {n \in NSIDSet : AllTimeRollupKey(n) \in DOMAIN ks.rollups}

\* the order of a ranking by count: n before m
RanksBefore(ks, n, m, ties_ascending) ==
    \/ EverRecords(ks, n) > EverRecords(ks, m)
    \/ /\ EverRecords(ks, n) = EverRecords(ks, m)
       /\ IF ties_ascending THEN NsidIndex(n) < NsidIndex(m)
          ELSE NsidIndex(n) > NsidIndex(m)

\* get_top_collections_by_count(limit) returns, for every limit, the
\* collections first in the order, in the order, each with the counts of its
\* all-time cell
TopByCount(ks, ties_ascending) ==
    \A limit \in 0..MaxLimit :
        LET r == get_top_collections_by_count(ks, limit)
            out == r.out
            inOut == {out[i].nsid : i \in 1..Len(out)}
        IN /\ ~r.panicked
           /\ Len(out) = Min(limit, Cardinality(EverCells(ks)))
           /\ \A i \in 1..Len(out) :
                 /\ out[i].nsid \in EverCells(ks)
                 /\ out[i].records = EverRecords(ks, out[i].nsid)
                 /\ out[i].dids_estimate =
                        estimate(ks.rollups[AllTimeRollupKey(out[i].nsid)].dids)
           /\ \A i, j \in 1..Len(out) :
                 i < j => RanksBefore(ks, out[i].nsid, out[j].nsid, ties_ascending)
           /\ \A n \in EverCells(ks) \ inOut, i \in 1..Len(out) :
                 RanksBefore(ks, out[i].nsid, n, ties_ascending)

\* C26: top_collections_by_count(limit) returns the up to limit collections
\* with the highest all-time record counts, by falling count, collections of
\* equal counts in ascending NSID order
C26_TopByCountTiesAscending == TopByCount(keyspace, TRUE)

\* C26: top_collections_by_count(limit) returns the up to limit collections
\* with the highest records in their all-time cells, by falling count,
\* collections of equal counts in descending NSID order
C26_TopByCountTiesDescending == TopByCount(keyspace, FALSE)

\* the roll-up has folded every live cell and two collections have the same
\* all-time count
C26_Witness ==
    /\ op.name = "step_rollup"
    /\ LiveKeys(keyspace) = {}
    /\ EverCells(keyspace) = NSIDSet
    /\ EverRecords(keyspace, NSIDS[1]) = EverRecords(keyspace, NSIDS[2])
    /\ EverRecords(keyspace, NSIDS[1]) > 0
    /\ get_top_collections_by_count(keyspace, 1).out[1].nsid = NSIDS[2]

EverRecordsOf(ks, n) == ks.rollups[AllTimeRollupKey(n)].records

\* the collections with an all-time cell that equal the segment path or
\* extend it by further segments
Under(ks, path) ==
    {n \in TreeNsids :
        /\ AllTimeRollupKey(n) \in DOMAIN ks.rollups
        /\ Len(split(n)) >= Len(path)
        /\ SubSeq(split(n), 1, Len(path)) = path}

\* the segment paths of the collections that have an all-time cell
Paths(ks) ==
    UNION {{SubSeq(split(n), 1, i) : i \in 0..Len(split(n))} : n \in Under(ks, <<>>)}

\* C27: the tree of the hierarchical query has a root and one node for every
\* segment path of a collection with an all-time cell; the records of a
\* node are the sum of the records of the cells of the collections that
\* equal its path or extend it (the root: of all cells), and its estimate is
\* that of the union of their sketches
C27_TreeSumsPrefixes ==
    op.name = "get_top_collections" =>
        /\ DOMAIN op.tops = Paths(keyspace) \cup {<<>>}
        /\ \A p \in DOMAIN op.tops :
              /\ op.tops[p].total_records =
                    SumRecords(keyspace, {AllTimeRollupKey(n) : n \in Under(keyspace, p)})
              /\ op.tops[p].dids_estimate =
                    Cardinality(UNION {keyspace.rollups[AllTimeRollupKey(n)].dids :
                                          n \in Under(keyspace, p)})

\* the tree of a store in which a.a.a, its child a.a.a.a and a.a.b have
\* cells: a.a.a counts in its own node, which holds its child's records too
C27_Witness ==
    /\ op.name = "get_top_collections"
    /\ Under(keyspace, <<>>) = TreeNsids
    /\ EverRecordsOf(keyspace, "a.a.a") = 2
    /\ EverRecordsOf(keyspace, "a.a.a.a") = 1
    /\ op.tops[<<"a", "a", "a">>].total_records = 3
    /\ op.tops[<<"a", "a", "a", "a">>].total_records = 1
    /\ op.tops[<<"a", "a">>].dids_estimate = 2

\* the non-create commits a CollectionCommits holds
NonCreates(cc) == {i \in 1..Len(cc.commits) : ~is_create(cc.commits[i].action)}

\* C28: a CollectionCommits never holds more than LIMIT commits; every commit
\* truncating_insert has replaced was a create, and every update or cut it
\* has accepted is still in the buffer; a call on a buffer that holds LIMIT
\* non-creates returns BatchFull with the commit it was handed and leaves
\* commits, total_seen and the sketch as they were
C28_CappedCommitBuffer ==
    [][/\ Len(batcher'.cc.commits) <= LIMIT
       /\ \A c \in batcher'.evicted : is_create(c.action)
       /\ \A i \in 1..Len(batcher'.accepted) :
             ~is_create(batcher'.accepted[i].action) =>
                \E j \in 1..Len(batcher'.cc.commits) :
                   batcher'.cc.commits[j] = batcher'.accepted[i]
       /\ (op'.name = "truncating_insert" /\ Cardinality(NonCreates(batcher.cc)) = LIMIT) =>
             /\ op'.err = "BatchFull"
             /\ op'.rejected = Some(op'.commit)
             /\ batcher'.cc.commits = batcher.cc.commits
             /\ batcher'.cc.total_seen = batcher.cc.total_seen
             /\ batcher'.cc.dids_estimate = batcher.cc.dids_estimate]_vars

\* a create is refused with BatchFull by a buffer whose two creates have
\* both made way for non-creates
C28_Witness ==
    /\ op.name = "truncating_insert"
    /\ op.err = "BatchFull"
    /\ is_create(op.commit.action)
    /\ Cardinality(batcher.evicted) = LIMIT
    /\ Cardinality(NonCreates(batcher.cc)) = LIMIT

\* the creates among the commits truncating_insert has accepted
AcceptedCreates(b) == {i \in 1..Len(b.accepted) : is_create(b.accepted[i].action)}

\* C29: total_seen is the number of creates truncating_insert has accepted,
\* those since replaced included, updates and cuts not counted; the sketch
\* holds the DID of each of these creates
C29_TotalSeenCountsAcceptedCreates ==
    /\ batcher.cc.total_seen = Cardinality(AcceptedCreates(batcher))
    /\ batcher.cc.dids_estimate =
          {batcher.accepted[i].did : i \in AcceptedCreates(batcher)}

\* three creates and an update accepted, the only create of did:b replaced
\* since: it still counts in total_seen and in the sketch
C29_Witness ==
    /\ batcher.cc.total_seen = 3
    /\ \E c \in batcher.evicted : c.did = "did:b"
    /\ \A i \in 1..Len(batcher.cc.commits) : batcher.cc.commits[i].did = "did:a"
    /\ batcher.cc.dids_estimate = DIDs
    /\ \E i \in 1..Len(batcher.accepted) : batcher.accepted[i].action.kind = "put"
                                           /\ batcher.accepted[i].action.is_update

\* C30: a commit accepted by a full buffer is in the buffer afterwards, the
\* commit it replaces is the oldest create the buffer held, and every
\* accepted create no longer in the buffer is older than each create that
\* is; a commit's cursor is its place in the order of insertion
C30_OverflowKeepsNewestCreates ==
    [][(op'.name = "truncating_insert" /\ op'.err = ""
          /\ Len(batcher.cc.commits) = LIMIT) =>
          /\ \E j \in 1..LIMIT : batcher'.cc.commits[j] = op'.commit
          /\ \A c \in op'.evicted :
                \A j \in 1..LIMIT :
                   is_create(batcher.cc.commits[j].action) =>
                      c.cursor <= batcher.cc.commits[j].cursor
          /\ \A i \in AcceptedCreates(batcher') :
                (\A j \in 1..LIMIT : batcher'.cc.commits[j] # batcher'.accepted[i]) =>
                   \A j \in 1..LIMIT :
                      is_create(batcher'.cc.commits[j].action) =>
                         batcher'.accepted[i].cursor < batcher'.cc.commits[j].cursor]_vars

\* the live cells and the queued deletes step_rollup finds ahead of the
\* roll-up cursor
LiveAhead(ks) == range_from_cursor(ks.rollups, ks.global[NewRollupCursorKey])

DeletesAhead(ks) == queue_range_to_prefix_end(ks.queues, ks.global[NewRollupCursorKey])

FirstCursor(cursors) == CHOOSE c \in cursors : \A d \in cursors : c <= d

\* the live cells a step has taken out of rollups
FoldedBy(before, after) == {k \in LiveAhead(before) : k \notin DOMAIN after.rollups}

\* a step that finds a live cell and, behind it, a queued delete
FoldBeforeDelete(ks) ==
    /\ LiveAhead(ks) # {}
    /\ DeletesAhead(ks) # {}
    /\ FirstCursor({k[2] : k \in LiveAhead(ks)}) < FirstCursor({k[1] : k \in DeletesAhead(ks)})

\* C31: a step that finds a live cell with a cursor below that of the first
\* queued delete D folds RollupLimit live cells at most, each of them with
\* a cursor below D's, leaves D in the queue, and sets rollup_cursor to the
\* cursor of the last cell it folded
C31_FoldStopsBeforeDelete ==
    [][(op'.name = "step_rollup" /\ FoldBeforeDelete(keyspace)) =>
          LET delete_cursor == FirstCursor({k[1] : k \in DeletesAhead(keyspace)})
              folded == FoldedBy(keyspace, keyspace')
          IN /\ Cardinality(folded) <= RollupLimit
             /\ \A k \in folded : k[2] < delete_cursor
             /\ DeleteAccountQueueKey(delete_cursor) \in DOMAIN keyspace'.queues
             /\ keyspace'.global[NewRollupCursorKey] = MaxOf({k[2] : k \in folded}, 0)]_vars

\* C32 as stated: a commit of an account-delete step that removes records
\* rows of the account also takes the delete off the queue and moves
\* rollup_cursor to its cursor
C32_DeleteStepOneCommit ==
    [][(op'.name = "rollup_delete_account" /\ keyspace'.records # keyspace.records) =>
          /\ DeleteAccountQueueKey(op'.cursor) \notin DOMAIN keyspace'.queues
          /\ keyspace'.global[NewRollupCursorKey] = op'.cursor]_vars

\* C32: a step that folds live cells changes rollups and sets rollup_cursor in
\* one commit; an account-delete step commits the removal of the account's
\* records rows first and then, in one commit that touches nothing else, takes
\* the delete off the queue and moves rollup_cursor to its cursor: a queue
\* entry never disappears without rollup_cursor having its cursor
C32_QueueAndCursorOneCommit ==
    [][/\ \A k \in DOMAIN keyspace.queues \ DOMAIN keyspace'.queues :
             /\ keyspace'.global[NewRollupCursorKey] = k[1]
             /\ keyspace'.records = keyspace.records
             /\ keyspace'.rollups = keyspace.rollups
       /\ (op'.name = "rollup_delete_account" /\ op'.committed = "records") =>
             /\ keyspace'.queues = keyspace.queues
             /\ keyspace'.global = keyspace.global
             /\ \A k \in DOMAIN keyspace'.records : k[1] # op'.did
       /\ (op'.name = "step_rollup" /\ op'.kind = "fold") =>
             /\ keyspace'.global[NewRollupCursorKey] =
                   MaxOf({k[2] : k \in FoldedBy(keyspace, keyspace')}, 0)
             /\ FoldedBy(keyspace, keyspace') # {}]_vars

\* the process restarted between the two commits of an account delete: the
\* account's record is gone, the delete is still queued ahead of rollup_cursor
C32_Witness ==
    /\ op.name = "init"
    /\ op.ok
    /\ DeletesAhead(keyspace) # {}
    /\ \A k \in DOMAIN keyspace.records : k[1] # "did:a"
    /\ puts # {}
    /\ pending = Nothing
    /\ keyspace.feeds # << >>

\* the collections that have an all-time cell, in key order
AllNsids(ks) == AllTimeRange(ks, 1)

\* C33: every page of get_all_collections holds at most limit entries, all of
\* them after the continuation it was called with, each with the counts of
\* its all-time cell, and comes with a next_cursor only when it holds
\* exactly limit entries; a walk with one limit >= 1 that has come to a page
\* without next_cursor has returned every NSID with an all-time cell once,
\* in ascending order, and no walk takes more calls than the full pages of
\* the store and one more
C33_PaginationComplete ==
    pager # Nothing =>
        /\ op.name = "get_all_collections"
        /\ Len(op.out) <= op.limit
        /\ op.next_cursor # Nothing => Len(op.out) = op.limit
        /\ \A i \in 1..Len(op.out) :
              /\ op.cursor # Nothing => KeyIndex(op.out[i].nsid) > KeyIndex(op.cursor[1])
              /\ op.out[i] = NsidCount(keyspace, op.out[i].nsid)
        /\ pager[1].seen = SubSeq(AllNsids(keyspace), 1, Len(pager[1].seen))
        /\ pager[1].next_cursor = Nothing => pager[1].seen = AllNsids(keyspace)
        /\ pager[1].calls <= (Len(AllNsids(keyspace)) \div pager[1].limit) + 1

\* a walk over four collections with limit 2 that ends with an empty third
\* page: the second page was full and came with a next_cursor
C33_Witness ==
    /\ pager # Nothing
    /\ pager[1].limit = 2
    /\ pager[1].calls = 3
    /\ pager[1].next_cursor = Nothing
    /\ Len(pager[1].seen) = 4
    /\ op.out = <<>>

BehindJsCursor(ks) ==
    /\ ks.global[NewRollupCursorKey] <= JsCursor(ks)
    /\ \A k \in DOMAIN ks.rollups : k[1] = "live_counts" => k[2] <= JsCursor(ks)
    /\ \A k \in DOMAIN ks.queues : k[1] <= JsCursor(ks)

C35_ReopenBeforeFirstBatch ==
    [][(/\ op'.name = "init"
        /\ JetstreamCursorKey \notin DOMAIN keyspace.global
        /\ Stored(keyspace, JetstreamEndpointKey) = Some(op'.endpoint)
        /\ SketchSecretKey \in DOMAIN keyspace.global) =>
          /\ op'.ok
          /\ op'.sketch_secret = keyspace.global[SketchSecretKey]
          /\ JetstreamCursorKey \notin DOMAIN keyspace'.global]_vars

\* C36: truncating_insert returns Ok or BatchFull, never BatchOverflow or
\* BatchForever: head stays within the buffer, the slots before head hold
\* non-creates, non_creates counts the non-creates held, and so a full buffer
\* with fewer than LIMIT non-creates has a create at head or after it
C36_OnlyBatchFull ==
    /\ op.name = "truncating_insert" => op.err \in {"", "BatchFull"}
    /\ batcher.cc.head < LIMIT
    /\ \A i \in 1..Len(batcher.cc.commits) :
          i <= batcher.cc.head => ~is_create(batcher.cc.commits[i].action)
    /\ batcher.cc.non_creates = Cardinality(NonCreates(batcher.cc))
    /\ (Len(batcher.cc.commits) = LIMIT /\ Cardinality(NonCreates(batcher.cc)) < LIMIT) =>
          \E i \in (batcher.cc.head + 1)..LIMIT : is_create(batcher.cc.commits[i].action)

\* an accepted non-create took the place of the last create of a full
\* buffer, after a scan that moved head to the last slot
C36_Witness ==
    /\ op.name = "truncating_insert"
    /\ op.err = ""
    /\ ~is_create(op.commit.action)
    /\ op.evicted # {}
    /\ batcher.cc.head = LIMIT - 1
    /\ Cardinality(NonCreates(batcher.cc)) = LIMIT

\* the commit of the batch at the location with the highest cursor
NewestAt(b, loc) ==
    LET cs == CommitsAt(b, loc)
    IN cs[CHOOSE i \in 1..Len(cs) : \A j \in 1..Len(cs) : cs[j].cursor <= cs[i].cursor]

\* C37: after insert_batch every location the batch has commits for holds the
\* version of the batch's commit with the highest cursor there when that is
\* a put, and no record when it is a cut, wherever the commits stand in the
\* commits vector
C37_BatchAppliesInCursorOrder ==
    [][Committed(op') =>
          \A loc \in Locations :
             CommitsAt(op'.batch, loc) # <<>> =>
                LET top == NewestAt(op'.batch, loc)
                IN IF top.action.kind = "cut" THEN loc \notin DOMAIN keyspace'.records
                   ELSE /\ loc \in DOMAIN keyspace'.records
                        /\ keyspace'.records[loc].cursor = top.cursor
                        /\ keyspace'.records[loc].rev = top.rev]_vars

\* C38: when a trim pass commits, every record row that a batch has written
\* since the pass read the store is still there, as the batch wrote it, and
\* every record row the commit removes has the cursor it had when the pass
\* examined its feed entry
C38_TrimSparesNewerData ==
    [][(op'.name = "background_commits" /\ op'.step = "trim_collection") =>
          \A loc \in DOMAIN keyspace.records :
             /\ LiveAt(keyspace, loc) # LiveAt(pending[1].before, loc) =>
                   LiveAt(keyspace', loc) = LiveAt(keyspace, loc)
             /\ loc \notin DOMAIN keyspace'.records =>
                   /\ loc \in DOMAIN pending[1].before.records
                   /\ pending[1].before.records[loc].cursor = keyspace.records[loc].cursor]_vars

\* the live cells the roll-up will not come to: those not ahead of its cursor
CellsBehind(ks) ==
    {k \in DOMAIN ks.rollups : k[1] = "live_counts"} \ LiveAhead(ks)

\* the records of a collection's all-time cell, 0 without one
AllTimeRecords(ks, n) ==
    IF AllTimeRollupKey(n) \in DOMAIN ks.rollups THEN ks.rollups[AllTimeRollupKey(n)].records
    ELSE 0

\* C39: a step that folds live cells in a store whose live cells are all
\* ahead of rollup_cursor, as batches with increasing latest cursors leave
\* them, leaves every live cell it has not folded ahead of rollup_cursor,
\* for a later step to fold, also when it stops at its limit between
\* two cells of one cursor; and it adds the records of the cells it folded
\* once to the all-time cell of their collection
C39_EveryLiveCellFolded ==
    [][(op'.name = "step_rollup" /\ op'.kind = "fold" /\ CellsBehind(keyspace) = {}) =>
          /\ CellsBehind(keyspace') = {}
          /\ \A n \in NSIDSet :
                AllTimeRecords(keyspace', n) =
                    AllTimeRecords(keyspace, n)
                    + SumRecords(keyspace, {k \in FoldedBy(keyspace, keyspace') : k[3] = n})]_vars

\* no two puts of a collection at different locations have carried one cursor
DistinctPutCursors ==
    \A p \in puts : \A q \in puts : (p[1] = q[1] /\ p[2] = q[2]) => p = q

\* the feed entry a record row stands behind
FeedOf(ks, loc) ==
    /\ NsidRecordFeedKey(loc[2], ks.records[loc].cursor) \in DOMAIN ks.feeds
    /\ ks.feeds[NsidRecordFeedKey(loc[2], ks.records[loc].cursor)] =
          [did |-> loc[1], rkey |-> loc[3], rev |-> ks.records[loc].rev]

\* C40: as long as the puts of a collection have distinct cursors, every
\* records row has its feed entry, at its collection and cursor and naming
\* its account, record key and rev; and no step removes or overwrites that
\* feed entry and leaves the row as it was
C40_NoOrphanRecords ==
    [][DistinctPutCursors' =>
          /\ \A loc \in DOMAIN keyspace'.records : FeedOf(keyspace', loc)
          /\ \A loc \in DOMAIN keyspace.records :
                (FeedOf(keyspace, loc) /\ LiveAt(keyspace', loc) = LiveAt(keyspace, loc)) =>
                   FeedOf(keyspace', loc)]_vars

\* a trim has removed the older of two records, and its feed entry with it,
\* and has left the newer with its feed entry
C40_Witness ==
    /\ op.name = "trim_collection"
    /\ DistinctPutCursors
    /\ Cardinality(puts) = 2
    /\ Cardinality(DOMAIN keyspace.records) = 1
    /\ Cardinality(DOMAIN keyspace.feeds) = 1
    /\ \A loc \in DOMAIN keyspace.records : FeedOf(keyspace, loc)
    /\ \E p \in puts : <<p[3], p[1], p[4]>> \notin DOMAIN keyspace.records
====
